---------------------------- MODULE Spec2Model ----------------------------
(***************************************************************************)
(* Project-Camp backend: the authorization gate (guard chains of the       *)
(* routes), the membership registry and the transactional / optimistic     *)
(* mutators, as a state machine over the document store.                   *)
(*                                                                         *)
(* Every request is a process: it is started with a route (op), a bearer   *)
(* token, path parameters and a body, runs the guards of its route in the  *)
(* declared order and then its handler.  Every `await` of the source is    *)
(* one step, so requests interleave exactly at the storage calls.          *)
(***************************************************************************)
EXTENDS Integers, Sequences, FiniteSets, TLC

VARIABLES
    projects,   \* Project collection: set of documents
    members,    \* ProjectMember collection: set of documents
    tasks,      \* Task collection
    subtasks,   \* Subtask collection
    notes,      \* Note collection
    nextId,     \* next fresh ObjectId
    req         \* the in-flight requests: slot -> request context and position

vars == <<projects, members, tasks, subtasks, notes, nextId, req>>
db   == <<projects, members, tasks, subtasks, notes>>

----------------------------------------------------------------------------
(* Bounds of the model *)

\* ObjectIds are 1..MaxId, handed out in increasing order and never reused.
MaxId == 4
\* A document's version key never exceeds MaxVersion (saves stop there).
MaxVersion == 2

\* A path parameter that is not a well-formed ObjectId.
InvalidId == 0
\* The documents stored before the first request have the ids above SeedId.
SeedId == MaxId
\* A well-formed ObjectId that no document ever gets.
AbsentId == SeedId + 9

Reqs  == {"r1", "r2"}
Users == {"u1", "u2", "u3"}

\* User.role of the identity store (system role).
SysRole(u) == IF u = "u2" THEN "member" ELSE "admin"

validRoles == {"admin", "project_admin", "member"}

NoDoc == [id |-> 0]

----------------------------------------------------------------------------
(* Errors *)

ApiError(code) == [name |-> "ApiError", code |-> 0, label |-> "none", statusCode |-> code]
VersionError   == [name |-> "VersionError", code |-> 0, label |-> "none", statusCode |-> 0]
DuplicateKey   == [name |-> "MongoServerError", code |-> 11000, label |-> "none", statusCode |-> 0]
TransientError == [name |-> "MongoServerError", code |-> 251, label |-> "TransientTransactionError", statusCode |-> 0]
WriteConflict  == [name |-> "MongoServerError", code |-> 112, label |-> "TransientTransactionError", statusCode |-> 0]
StorageError   == [name |-> "MongoNetworkError", code |-> 0, label |-> "none", statusCode |-> 0]
CastError      == [name |-> "CastError", code |-> 0, label |-> "none", statusCode |-> 0]
DocumentNotFound == [name |-> "DocumentNotFoundError", code |-> 0, label |-> "none", statusCode |-> 0]
TypeError        == [name |-> "TypeError", code |-> 0, label |-> "none", statusCode |-> 0]
NoError        == [name |-> "none", code |-> 0, label |-> "none", statusCode |-> 0]

\* app.use((err, req, res, next) => ...): the status of the error envelope.
ErrorStatus(err) == IF err.statusCode # 0 THEN err.statusCode ELSE 500

\* A classifier that retries every error.
shouldRetryAny(error) == TRUE

\* retryOperation's default classifier.
shouldRetry(error) ==
    \/ error.name = "VersionError"
    \/ error.code = 11000
    \/ error.code = 112
    \/ error.label = "TransientTransactionError"

maxRetries == 3
initialDelay == 100
maxDelay == 2000

----------------------------------------------------------------------------
(* The document store *)

FindProject(id) ==
    IF \E p \in projects : p.id = id
    THEN CHOOSE p \in projects : p.id = id
    ELSE NoDoc

\* ProjectMember.findOne({ project, user })
FindMember(pid, uid) ==
    IF \E m \in members : m.project = pid /\ m.user = uid
    THEN CHOOSE m \in members : m.project = pid /\ m.user = uid
    ELSE NoDoc

\* mongoose.Types.ObjectId.isValid
IsValidObjectId(id) == id # InvalidId

\* A session's transaction: the writes staged so far (invisible to every other
\* request until commit) and the snapshot its reads and filters see.
NoSnap == [tasks |-> {}, subtasks |-> {}, notes |-> {}, members |-> {}, project |-> {}]
EmptyTxn == [insProject |-> {}, insMember |-> {}, del |-> {}, snap |-> NoSnap]

\* The documents a transaction that starts now sees for project pid.
Snapshot(pid) ==
    LET taskIds == {t.id : t \in {x \in tasks : x.project = pid}} IN
    [tasks    |-> {x \in tasks : x.project = pid},
     subtasks |-> {x \in subtasks : x.task \in taskIds},
     notes    |-> {x \in notes : x.project = pid},
     members  |-> {x \in members : x.project = pid},
     project  |-> {x \in projects : x.id = pid}]

\* A collection without the unique index: every insert is accepted.
NoUniqueIndex(pid, uid) == TRUE

\* The unique index { project: 1, user: 1 } of ProjectMember.
UniqueIndexAllows(pid, uid) ==
    ~ \E m \in members : m.project = pid /\ m.user = uid

\* A schema without optimisticConcurrency: the write is filtered by _id only.
VersionIgnored(coll, doc) ==
    \E d \in coll : d.id = doc.id

\* doc.save() under optimisticConcurrency: the write is filtered by _id and
\* the version the document was fetched with.
VersionMatches(coll, doc) ==
    \E d \in coll : d.id = doc.id /\ d.ver = doc.ver

FindTask(id) ==
    IF \E t \in tasks : t.id = id THEN CHOOSE t \in tasks : t.id = id ELSE NoDoc

\* A task lookup by id alone, whatever project the path names.
FindTaskInAnyProject(id, pid) ==
    IF \E t \in tasks : t.id = id THEN CHOOSE t \in tasks : t.id = id ELSE NoDoc

\* Task.findOne({ _id: taskId, project: projectId })
FindTaskIn(id, pid) ==
    IF \E t \in tasks : t.id = id /\ t.project = pid
    THEN CHOOSE t \in tasks : t.id = id /\ t.project = pid
    ELSE NoDoc

FindSubtask(id) ==
    IF \E x \in subtasks : x.id = id THEN CHOOSE x \in subtasks : x.id = id ELSE NoDoc

\* Note.findOne({ _id: noteId, project: projectId })
FindNoteIn(id, pid) ==
    IF \E n \in notes : n.id = id /\ n.project = pid
    THEN CHOOSE n \in notes : n.id = id /\ n.project = pid
    ELSE NoDoc

\* The in-memory document after `if (x !== undefined) doc.x = x` for each of
\* the given fields of the body.
Assign(doc, body, fields) ==
    [f \in DOMAIN doc |->
        IF f \in fields /\ body[f] # "undefined" THEN body[f] ELSE doc[f]]

\* doc.save() writes the modified paths only: the fields whose in-memory
\* value differs from the fetched one.
Modified(fetched, updated) == {f \in DOMAIN fetched : updated[f] # fetched[f]}

WriteModified(stored, fetched, updated) ==
    [f \in DOMAIN stored |->
        IF f \in Modified(fetched, updated) THEN updated[f] ELSE stored[f]]

\* doc.save() of a schema with optimisticConcurrency, once the version filter
\* matched: the modified paths are written and the version key incremented.
SaveVersioned(coll, fetched, updated) ==
    {IF d.id = fetched.id
     THEN [WriteModified(d, fetched, updated) EXCEPT
              !.ver = IF Modified(fetched, updated) # {} THEN @ + 1 ELSE @]
     ELSE d : d \in coll}

\* doc.save() of a schema without optimisticConcurrency: filtered by _id only.
SavePlain(coll, fetched, updated) ==
    {IF d.id = fetched.id THEN WriteModified(d, fetched, updated) ELSE d : d \in coll}

\* User.findOne({ email })
FindUserByEmail(email) == IF email \in Users THEN email ELSE "none"

\* String.prototype.trim over the strings requests carry: " " is a blank
\* string, " t2 " is "t2" with surrounding white space.
Trim(str) ==
    CASE str = " "    -> ""
      [] str = " t2 " -> "t2"
      [] OTHER        -> str

\* The body with the given fields trimmed (undefined stays undefined).
Trimmed(body, fields) ==
    [f \in DOMAIN body |-> IF f \in fields THEN Trim(body[f]) ELSE body[f]]


----------------------------------------------------------------------------
(* Routes: the guard chain each route declares, in order *)

JWT             == [g |-> "verifyJWT", allowed |-> {}]
Roles(allowed)  == [g |-> "verifyRoles", allowed |-> allowed]
Membership      == [g |-> "verifyProjectMembership", allowed |-> {}]
ProjectRole(allowed) == [g |-> "verifyProjectRole", allowed |-> allowed]

ProjectRouteOps ==
    {"createProject", "getUserProjects", "getProjectById", "updateProject",
     "deleteProject", "addProjectMember", "getProjectMembers",
     "updateProjectMemberRole", "removeProjectMember"}
NoteRouteOps ==
    {"createNote", "getProjectNotes", "getNoteById", "updateNote", "deleteNote"}
TaskRouteOps ==
    {"createTask", "getProjectTasks", "getTaskById", "updateTask", "deleteTask",
     "createSubtask", "updateSubtask", "deleteSubtask"}
AllOps == ProjectRouteOps \cup NoteRouteOps \cup TaskRouteOps

\* A route table whose project mutations also admit project_admin.
ProjectRoutesLax(op) ==
    LET lax == ProjectRole({"admin", "project_admin"}) IN
    CASE op = "createProject"           -> <<JWT, Roles({"admin"})>>
      [] op = "getUserProjects"         -> <<JWT>>
      [] op = "getProjectById"          -> <<JWT, Membership>>
      [] op = "updateProject"           -> <<JWT, Membership, lax>>
      [] op = "deleteProject"           -> <<JWT, Membership, lax>>
      [] op = "addProjectMember"        -> <<JWT, Roles({"admin"})>>
      [] op = "getProjectMembers"       -> <<JWT, Membership>>
      [] op = "updateProjectMemberRole" -> <<JWT, Membership, lax>>
      [] op = "removeProjectMember"     -> <<JWT, Membership, lax>>

\* project.routes.js
ProjectRoutes(op) ==
    CASE op = "createProject"           -> <<JWT, Roles({"admin"})>>
      [] op = "getUserProjects"         -> <<JWT>>
      [] op = "getProjectById"          -> <<JWT, Membership>>
      [] op = "updateProject"           -> <<JWT, Membership, ProjectRole({"admin"})>>
      [] op = "deleteProject"           -> <<JWT, Membership, ProjectRole({"admin"})>>
      [] op = "addProjectMember"        -> <<JWT, Roles({"admin"})>>
      [] op = "getProjectMembers"       -> <<JWT, Membership>>
      [] op = "updateProjectMemberRole" -> <<JWT, Membership, ProjectRole({"admin"})>>
      [] op = "removeProjectMember"     -> <<JWT, Membership, ProjectRole({"admin"})>>

\* note.routes.js
NoteRoutes(op) ==
    CASE op = "createNote"      -> <<JWT, Roles({"admin"})>>
      [] op = "getProjectNotes" -> <<JWT, Membership>>
      [] op = "getNoteById"     -> <<JWT, Membership>>
      [] op = "updateNote"      -> <<JWT, Roles({"admin"})>>
      [] op = "deleteNote"      -> <<JWT, Roles({"admin"})>>

\* A task route table that mounts the role guard before the membership guard
\* on POST /:projectId.
TaskRoutesMisordered(op) ==
    CASE op = "createTask"      -> <<JWT, ProjectRole({"admin", "project_admin"}), Membership>>
      [] op = "getProjectTasks" -> <<JWT, Membership>>
      [] op = "getTaskById"     -> <<JWT, Membership>>
      [] op = "updateTask"      -> <<JWT, Membership, ProjectRole({"admin", "project_admin"})>>
      [] op = "deleteTask"      -> <<JWT, Membership, ProjectRole({"admin", "project_admin"})>>
      [] op = "createSubtask"   -> <<JWT, Membership, ProjectRole({"admin", "project_admin"})>>
      [] op = "updateSubtask"   -> <<JWT, Membership>>
      [] op = "deleteSubtask"   -> <<JWT, Membership, ProjectRole({"admin", "project_admin"})>>

\* task.routes.js
TaskRoutes(op) ==
    CASE op = "createTask"      -> <<JWT, Membership, ProjectRole({"admin", "project_admin"})>>
      [] op = "getProjectTasks" -> <<JWT, Membership>>
      [] op = "getTaskById"     -> <<JWT, Membership>>
      [] op = "updateTask"      -> <<JWT, Membership, ProjectRole({"admin", "project_admin"})>>
      [] op = "deleteTask"      -> <<JWT, Membership, ProjectRole({"admin", "project_admin"})>>
      [] op = "createSubtask"   -> <<JWT, Membership, ProjectRole({"admin", "project_admin"})>>
      [] op = "updateSubtask"   -> <<JWT, Membership>>
      [] op = "deleteSubtask"   -> <<JWT, Membership, ProjectRole({"admin", "project_admin"})>>

Chain(op) ==
    IF op \in ProjectRouteOps THEN ProjectRoutes(op)
    ELSE IF op \in NoteRouteOps THEN NoteRoutes(op)
    ELSE TaskRoutes(op)

\* task.routes.js, the file attachment routes: the multer middleware runs
\* after the three guards.
Upload == [g |-> "upload.array", allowed |-> {}]
AttachmentRouteOps == {"uploadTaskAttachments", "deleteTaskAttachment"}
AttachmentRoutes(op) ==
    CASE op = "uploadTaskAttachments" ->
            <<JWT, Membership, ProjectRole({"admin", "project_admin"}), Upload>>
      [] op = "deleteTaskAttachment" ->
            <<JWT, Membership, ProjectRole({"admin", "project_admin"})>>

\* Every route the three routers declare, with its chain.
DeclaredOps == AllOps \cup AttachmentRouteOps
DeclaredChain(op) == IF op \in AttachmentRouteOps THEN AttachmentRoutes(op) ELSE Chain(op)

\* The handlers that read req.projectMembership.
ReadsMembership == {"getProjectById", "updateSubtask"}

\* Routes whose path carries :projectId (all but POST / and GET / of projects).
HasProjectId(op) == op \notin {"createProject", "getUserProjects"}

----------------------------------------------------------------------------
(* Requests *)

EmptyBody ==
    [email |-> "undefined", role |-> "undefined", name |-> "undefined",
     description |-> "undefined", title |-> "undefined", content |-> "undefined",
     assignee |-> "undefined", status |-> "undefined", isCompleted |-> "undefined"]

IdleReq ==
    [pc |-> "idle", op |-> "none", token |-> "none", user |-> "none",
     pid |-> 0, uid |-> "none", did |-> 0, body |-> EmptyBody,
     gi |-> 0, mem |-> NoDoc, doc |-> NoDoc, attempt |-> 0,
     txn |-> EmptyTxn, status |-> 0, looked |-> FALSE, err |-> NoError]

\* The response is sent: the request's locals are dropped, its context kept.
Respond(rq, status) ==
    [rq EXCEPT !.pc = "done", !.status = status, !.doc = NoDoc,
               !.attempt = 0, !.txn = EmptyTxn]

\* An error reaches the global error handler.
Throw(rq, err) == [Respond(rq, ErrorStatus(err)) EXCEPT !.err = err]

\* next(): the next guard of the chain, or the handler after the last guard.
PassGuard(rq) ==
    IF rq.gi < Len(Chain(rq.op))
    THEN [rq EXCEPT !.gi = @ + 1, !.pc = "guard"]
    ELSE [rq EXCEPT !.gi = @ + 1, !.pc = rq.op]

AtGuard(r, g) ==
    /\ req[r].pc = "guard"
    /\ Chain(req[r].op)[req[r].gi].g = g

\* A request arrives: inp gives the sets its route, credential, path
\* parameters and body are drawn from.
Start(r, inp) ==
    /\ req[r].pc = "idle"
    /\ \E op \in inp.ops, token \in inp.tokens :
       \E pid \in inp.pids[op], uid \in inp.uids[op],
          did \in inp.dids[op], body \in inp.bodies[op] :
          req' = [req EXCEPT ![r] =
                    [IdleReq EXCEPT !.pc = "guard", !.op = op, !.token = token,
                                    !.pid = pid, !.uid = uid, !.did = did,
                                    !.body = body, !.gi = 1]]
    /\ UNCHANGED <<db, nextId>>

\* The response has been delivered; the slot serves the next request.
Finish(r) ==
    /\ req[r].pc = "done"
    /\ req' = [req EXCEPT ![r] = IdleReq]
    /\ UNCHANGED <<db, nextId>>

----------------------------------------------------------------------------
(* Authorization gate *)

verifyJWT(r) ==
    /\ AtGuard(r, "verifyJWT")
    /\ LET rq == req[r] IN
       req' = [req EXCEPT ![r] =
                 IF rq.token = "none"
                 THEN Throw(rq, ApiError(401))
                 ELSE \* jwt.verify passes; User.findById
                      IF rq.token \in Users
                      THEN PassGuard([rq EXCEPT !.user = rq.token, !.looked = TRUE])
                      ELSE Throw([rq EXCEPT !.looked = TRUE], ApiError(401))]
    /\ UNCHANGED <<db, nextId>>

verifyRoles(r) ==
    /\ AtGuard(r, "verifyRoles")
    /\ LET rq == req[r]
           allowedRoles == Chain(rq.op)[rq.gi].allowed IN
       req' = [req EXCEPT ![r] =
                 IF rq.user = "none" THEN Throw(rq, ApiError(401))
                 ELSE IF SysRole(rq.user) \notin allowedRoles
                      THEN Throw(rq, ApiError(403))
                      ELSE PassGuard(rq)]
    /\ UNCHANGED <<db, nextId>>

\* verifyProjectMembership up to its first await, Project.findById
\* A membership guard that looks the project up before validating the id.
verifyProjectMembershipLookupFirst(r) ==
    /\ AtGuard(r, "verifyProjectMembership")
    /\ LET rq == req[r] IN
       req' = [req EXCEPT ![r] =
                 IF rq.user = "none" THEN Throw(rq, ApiError(401))
                 ELSE IF FindProject(rq.pid) = NoDoc
                      THEN Throw([rq EXCEPT !.looked = TRUE], ApiError(404))
                 ELSE IF ~IsValidObjectId(rq.pid) THEN Throw(rq, ApiError(400))
                      ELSE [rq EXCEPT !.looked = TRUE, !.pc = "membershipFind"]]
    /\ UNCHANGED <<db, nextId>>

verifyProjectMembership(r) ==
    /\ AtGuard(r, "verifyProjectMembership")
    /\ LET rq == req[r] IN
       req' = [req EXCEPT ![r] =
                 IF rq.user = "none" THEN Throw(rq, ApiError(401))
                 ELSE IF ~IsValidObjectId(rq.pid) THEN Throw(rq, ApiError(400))
                 ELSE IF FindProject(rq.pid) = NoDoc
                      THEN Throw([rq EXCEPT !.looked = TRUE], ApiError(404))
                      ELSE [rq EXCEPT !.looked = TRUE, !.pc = "membershipFind"]]
    /\ UNCHANGED <<db, nextId>>

\* verifyProjectMembership from ProjectMember.findOne on
verifyProjectMembershipFind(r) ==
    /\ req[r].pc = "membershipFind"
    /\ LET rq == req[r]
           membership == FindMember(rq.pid, rq.user) IN
       req' = [req EXCEPT ![r] =
                 IF membership = NoDoc
                 THEN Throw(rq, ApiError(403))
                 ELSE PassGuard([rq EXCEPT !.mem = membership])]
    /\ UNCHANGED <<db, nextId>>

\* A role guard that answers a missing membership like a role outside the
\* allow-list.
verifyProjectRoleUnchecked(r) ==
    /\ AtGuard(r, "verifyProjectRole")
    /\ LET rq == req[r]
           allowedRoles == Chain(rq.op)[rq.gi].allowed IN
       req' = [req EXCEPT ![r] =
                 IF rq.mem = NoDoc THEN Throw(rq, ApiError(403))
                 ELSE IF rq.mem.role \notin allowedRoles
                      THEN Throw(rq, ApiError(403))
                      ELSE PassGuard(rq)]
    /\ UNCHANGED <<db, nextId>>

verifyProjectRole(r) ==
    /\ AtGuard(r, "verifyProjectRole")
    /\ LET rq == req[r]
           allowedRoles == Chain(rq.op)[rq.gi].allowed IN
       req' = [req EXCEPT ![r] =
                 IF rq.mem = NoDoc THEN Throw(rq, ApiError(500))
                 ELSE IF rq.mem.role \notin allowedRoles
                      THEN Throw(rq, ApiError(403))
                      ELSE PassGuard(rq)]
    /\ UNCHANGED <<db, nextId>>


----------------------------------------------------------------------------
(* Transactional mutator: retryOperation *)

\* retryOperation's catch block: rethrow on the last attempt or for an error
\* the classifier rejects, otherwise wait and run the operation again.
\* A catch block that allows one attempt more.
CaughtOneMore(rq, error, again) ==
    IF rq.attempt = maxRetries + 1 \/ ~shouldRetry(error)
    THEN Throw(rq, error)
    ELSE [rq EXCEPT !.attempt = @ + 1, !.pc = again,
                    !.doc = NoDoc, !.txn = EmptyTxn]

\* A catch block that raises a wrapper once the attempts are used up.
CaughtWrapped(rq, error, again) ==
    IF rq.attempt = maxRetries
    THEN Throw(rq, [error EXCEPT !.name = "RetryError"])
    ELSE IF ~shouldRetry(error)
         THEN Throw(rq, error)
         ELSE [rq EXCEPT !.attempt = @ + 1, !.pc = again,
                         !.doc = NoDoc, !.txn = EmptyTxn]

Caught(rq, error, again) ==
    IF rq.attempt = maxRetries \/ ~shouldRetry(error)
    THEN Throw(rq, error)
    ELSE [rq EXCEPT !.attempt = @ + 1, !.pc = again,
                    !.doc = NoDoc, !.txn = EmptyTxn]

\* A document some open transaction has staged a write for: a write from
\* outside that transaction waits until the transaction commits or aborts.
Locked(id) == \E q \in Reqs : id \in req[q].txn.del
LockedByOther(r, id) == \E q \in Reqs \ {r} : id \in req[q].txn.del

\* The errors a storage call inside a transaction may fail with.
SessionErrors == {TransientError, StorageError}

SessionPcs ==
    {"txCreateProject", "txCreateMember", "txCommitCreate",
     "txFindTasks", "txDeleteSubtasks", "txDeleteTasks", "txDeleteNotes",
     "txDeleteMembers", "txDeleteProject", "txCommitDelete"}

\* First step of the operation handed to retryOperation.
FirstAttemptPc(op) ==
    IF op = "createProject" THEN "txCreateProject" ELSE "txFindTasks"

\* A storage call of the transaction (or its commit) fails: the catch block
\* aborts the transaction, finally ends the session, and the error reaches
\* retryOperation.
abortTransaction(r) ==
    /\ req[r].pc \in SessionPcs
    /\ \E error \in SessionErrors :
          req' = [req EXCEPT ![r] = Caught(req[r], error, FirstAttemptPc(req[r].op))]
    /\ UNCHANGED <<db, nextId>>

----------------------------------------------------------------------------
(* createProject *)

createProject(r) ==
    /\ req[r].pc = "createProject"
    /\ LET rq == req[r] IN
       req' = [req EXCEPT ![r] =
                 IF rq.body.name = "undefined" \/ Trim(rq.body.name) = ""
                 THEN Throw(rq, ApiError(400))
                 ELSE [rq EXCEPT !.pc = "txCreateProject"]]
    /\ UNCHANGED <<db, nextId>>

\* Project.create without the session: the document is stored at once.
txCreateProjectUnstaged(r) ==
    /\ req[r].pc = "txCreateProject"
    /\ LET rq == req[r]
           project == [name |-> Trim(rq.body.name), description |-> "",
                       owner |-> rq.user, ver |-> 0] IN
       /\ req' = [req EXCEPT ![r] =
                    [rq EXCEPT !.pc = "txCreateMember", !.txn.insProject = {project}]]
       /\ projects' = projects \cup
             {[id |-> nextId, name |-> project.name, description |-> "",
               owner |-> rq.user, ver |-> 0]}
    /\ UNCHANGED <<members, tasks, subtasks, notes, nextId>>

\* startSession, startTransaction, Project.create([...], { session })
txCreateProject(r) ==
    /\ req[r].pc = "txCreateProject"
    /\ LET rq == req[r]
           description == IF rq.body.description = "undefined" THEN ""
                          ELSE Trim(rq.body.description) IN
       req' = [req EXCEPT ![r] =
                 [rq EXCEPT !.pc = "txCreateMember",
                            !.txn.insProject =
                               {[name |-> Trim(rq.body.name), description |-> description,
                                 owner |-> rq.user, ver |-> 0]}]]
    /\ UNCHANGED <<db, nextId>>

\* ProjectMember.create([...], { session })
txCreateMember(r) ==
    /\ req[r].pc = "txCreateMember"
    /\ LET rq == req[r] IN
       req' = [req EXCEPT ![r] =
                 [rq EXCEPT !.pc = "txCommitCreate",
                            !.txn.insMember =
                               {[user |-> rq.user, role |-> "admin",
                                 addedBy |-> rq.user, ver |-> 0]}]]
    /\ UNCHANGED <<db, nextId>>

\* session.commitTransaction(): both documents become visible at once.  The
\* ObjectIds of the two new documents are fresh.
txCommitCreate(r) ==
    /\ req[r].pc = "txCommitCreate"
    /\ nextId + 1 <= MaxId
    /\ LET rq == req[r] IN
       /\ projects' = projects \cup
             {[id |-> nextId, name |-> p.name, description |-> p.description,
               owner |-> p.owner, ver |-> p.ver] : p \in rq.txn.insProject}
       /\ members' = members \cup
             {[id |-> nextId + 1, project |-> nextId, user |-> m.user,
               role |-> m.role, joinedAt |-> nextId + 1,
               addedBy |-> m.addedBy, ver |-> m.ver]
                : m \in rq.txn.insMember}
       /\ nextId' = nextId + 2
       /\ req' = [req EXCEPT ![r] = Respond([rq EXCEPT !.pid = nextId], 201)]
    /\ UNCHANGED <<tasks, subtasks, notes>>

----------------------------------------------------------------------------
(* deleteProject *)

deleteProject(r) ==
    /\ req[r].pc = "deleteProject"
    /\ LET rq == req[r] IN
       req' = [req EXCEPT ![r] =
                 IF FindProject(rq.pid) = NoDoc
                 THEN Throw(rq, ApiError(404))
                 ELSE [rq EXCEPT !.pc = "txFindTasks"]]
    /\ UNCHANGED <<db, nextId>>

\* startSession, startTransaction, Task.find({ project }).session(session):
\* the transaction's snapshot is taken here.
txFindTasks(r) ==
    /\ req[r].pc = "txFindTasks"
    /\ req' = [req EXCEPT ![r] =
                 [req[r] EXCEPT !.pc = "txDeleteSubtasks",
                                !.txn.snap = Snapshot(req[r].pid)]]
    /\ UNCHANGED <<db, nextId>>

\* A deleteMany / findByIdAndDelete of the cascade without the session: the
\* matching documents are deleted at once.
SessionDeleteUnstaged(r, at, coll, docs, then) ==
    /\ req[r].pc = at
    /\ req' = [req EXCEPT ![r].pc = then]
    /\ LET ids == {d.id : d \in docs} IN
       /\ projects' = {x \in projects : x.id \notin ids}
       /\ members'  = {x \in members : x.id \notin ids}
       /\ tasks'    = {x \in tasks : x.id \notin ids}
       /\ subtasks' = {x \in subtasks : x.id \notin ids}
       /\ notes'    = {x \in notes : x.id \notin ids}
    /\ UNCHANGED nextId

\* One deleteMany / findByIdAndDelete of the cascade, inside the session: the
\* documents of the snapshot that match its filter are staged for deletion.
\* The storage engine refuses the write (WriteConflict, labelled transient)
\* when one of them was written after the snapshot was taken or is staged by
\* another transaction; the catch block then aborts the transaction.
SessionDelete(r, at, coll, docs, then) ==
    /\ req[r].pc = at
    /\ req' = [req EXCEPT ![r] =
                 IF docs \subseteq coll /\ \A d \in docs : ~LockedByOther(r, d.id)
                 THEN [req[r] EXCEPT !.pc = then,
                                     !.txn.del = @ \cup {d.id : d \in docs}]
                 ELSE Caught(req[r], WriteConflict, FirstAttemptPc(req[r].op))]
    /\ UNCHANGED <<db, nextId>>

\* Subtask.deleteMany({ task: { $in: taskIds } }).session(session)
txDeleteSubtasks(r) ==
    SessionDelete(r, "txDeleteSubtasks", subtasks, req[r].txn.snap.subtasks,
                  "txDeleteTasks")

\* Task.deleteMany({ project }).session(session)
txDeleteTasks(r) ==
    SessionDelete(r, "txDeleteTasks", tasks, req[r].txn.snap.tasks, "txDeleteNotes")

\* Note.deleteMany({ project }).session(session)
txDeleteNotes(r) ==
    SessionDelete(r, "txDeleteNotes", notes, req[r].txn.snap.notes, "txDeleteMembers")

\* ProjectMember.deleteMany({ project }).session(session)
txDeleteMembers(r) ==
    SessionDelete(r, "txDeleteMembers", members, req[r].txn.snap.members,
                  "txDeleteProject")

\* Project.findByIdAndDelete(projectId).session(session)
txDeleteProject(r) ==
    SessionDelete(r, "txDeleteProject", projects, req[r].txn.snap.project,
                  "txCommitDelete")

\* session.commitTransaction(): every staged deletion is applied at once.
txCommitDelete(r) ==
    /\ req[r].pc = "txCommitDelete"
    /\ LET del == req[r].txn.del IN
       /\ projects' = {x \in projects : x.id \notin del}
       /\ members'  = {x \in members : x.id \notin del}
       /\ tasks'    = {x \in tasks : x.id \notin del}
       /\ subtasks' = {x \in subtasks : x.id \notin del}
       /\ notes'    = {x \in notes : x.id \notin del}
    /\ req' = [req EXCEPT ![r] = Respond(req[r], 200)]
    /\ UNCHANGED nextId

----------------------------------------------------------------------------
(* addProjectMember *)

\* Body validation, then Project.findById
\* addProjectMember without the check of the role against validRoles.
addProjectMemberAnyRole(r) ==
    /\ req[r].pc = "addProjectMember"
    /\ LET rq == req[r] IN
       req' = [req EXCEPT ![r] =
                 IF rq.body.email \in {"undefined", ""} THEN Throw(rq, ApiError(400))
                 ELSE IF rq.body.role \in {"undefined", ""} THEN Throw(rq, ApiError(400))
                 ELSE IF ~IsValidObjectId(rq.pid) THEN Throw(rq, CastError)
                 ELSE IF FindProject(rq.pid) = NoDoc
                      THEN Throw([rq EXCEPT !.looked = TRUE], ApiError(404))
                      ELSE [rq EXCEPT !.looked = TRUE, !.pc = "addFindUser"]]
    /\ UNCHANGED <<db, nextId>>

addProjectMember(r) ==
    /\ req[r].pc = "addProjectMember"
    /\ LET rq == req[r] IN
       req' = [req EXCEPT ![r] =
                 IF rq.body.email \in {"undefined", ""} THEN Throw(rq, ApiError(400))
                 ELSE IF rq.body.role \in {"undefined", ""} THEN Throw(rq, ApiError(400))
                 ELSE IF rq.body.role \notin validRoles THEN Throw(rq, ApiError(400))
                 ELSE IF ~IsValidObjectId(rq.pid) THEN Throw(rq, CastError)
                 ELSE IF FindProject(rq.pid) = NoDoc
                      THEN Throw([rq EXCEPT !.looked = TRUE], ApiError(404))
                      ELSE [rq EXCEPT !.looked = TRUE, !.pc = "addFindUser"]]
    /\ UNCHANGED <<db, nextId>>

\* User.findOne({ email })
addFindUser(r) ==
    /\ req[r].pc = "addFindUser"
    /\ LET rq == req[r]
           userToAdd == FindUserByEmail(rq.body.email) IN
       req' = [req EXCEPT ![r] =
                 IF userToAdd = "none"
                 THEN Throw(rq, ApiError(404))
                 ELSE [rq EXCEPT !.uid = userToAdd, !.pc = "addFindMember"]]
    /\ UNCHANGED <<db, nextId>>

\* ProjectMember.findOne({ project, user }): the duplicate check
addFindMember(r) ==
    /\ req[r].pc = "addFindMember"
    /\ LET rq == req[r] IN
       req' = [req EXCEPT ![r] =
                 IF FindMember(rq.pid, rq.uid) # NoDoc
                 THEN Throw(rq, ApiError(409))
                 ELSE [rq EXCEPT !.pc = "addCreate"]]
    /\ UNCHANGED <<db, nextId>>

\* ProjectMember.create({...}): the insert is refused by the unique index
\* when the pair already has a record (E11000, not an ApiError).
addCreate(r) ==
    /\ req[r].pc = "addCreate"
    /\ LET rq == req[r] IN
       IF UniqueIndexAllows(rq.pid, rq.uid)
       THEN /\ nextId <= MaxId
            /\ members' = members \cup
                  {[id |-> nextId, project |-> rq.pid, user |-> rq.uid,
                    role |-> rq.body.role, joinedAt |-> nextId,
                    addedBy |-> rq.user, ver |-> 0]}
            /\ nextId' = nextId + 1
            /\ req' = [req EXCEPT ![r] = Respond(rq, 201)]
       ELSE /\ req' = [req EXCEPT ![r] = Throw(rq, DuplicateKey)]
            /\ UNCHANGED <<members, nextId>>
    /\ UNCHANGED <<projects, tasks, subtasks, notes>>

----------------------------------------------------------------------------
(* updateProjectMemberRole *)

updateProjectMemberRole(r) ==
    /\ req[r].pc = "updateProjectMemberRole"
    /\ LET rq == req[r] IN
       req' = [req EXCEPT ![r] =
                 IF rq.body.role \in {"undefined", ""} THEN Throw(rq, ApiError(400))
                 ELSE IF rq.body.role \notin validRoles THEN Throw(rq, ApiError(400))
                 ELSE [rq EXCEPT !.pc = "roleFind"]]
    /\ UNCHANGED <<db, nextId>>

\* retryWithOptimisticLocking, findDocument: ProjectMember.findOne
roleFind(r) ==
    /\ req[r].pc = "roleFind"
    /\ LET rq == req[r]
           membership == FindMember(rq.pid, rq.uid) IN
       req' = [req EXCEPT ![r] =
                 IF membership = NoDoc
                 THEN Caught(rq, ApiError(404), "roleFind")
                 ELSE [rq EXCEPT !.doc = membership, !.pc = "roleSave"]]
    /\ UNCHANGED <<db, nextId>>

\* A save that also stamps the requester as the one who added the member.
roleSaveRestamp(r) ==
    /\ req[r].pc = "roleSave"
    /\ ~Locked(req[r].doc.id)
    /\ LET rq == req[r]
           updated == [Assign(rq.doc, rq.body, {"role"}) EXCEPT !.addedBy = rq.uid] IN
       IF VersionMatches(members, rq.doc)
       THEN /\ Modified(rq.doc, updated) # {} => rq.doc.ver < MaxVersion
            /\ members' = SaveVersioned(members, rq.doc, updated)
            /\ req' = [req EXCEPT ![r] = Respond(rq, 200)]
       ELSE /\ req' = [req EXCEPT ![r] = Caught(rq, VersionError, "roleFind")]
            /\ UNCHANGED members
    /\ UNCHANGED <<projects, tasks, subtasks, notes, nextId>>

\* A save that writes the in-memory document back under its id, inserting it
\* when the stored one is gone (an upsert).
roleSaveUpsert(r) ==
    /\ req[r].pc = "roleSave"
    /\ ~Locked(req[r].doc.id)
    /\ LET rq == req[r]
           updated == Assign(rq.doc, rq.body, {"role"}) IN
       /\ members' = {m \in members : m.id # rq.doc.id} \cup {updated}
       /\ req' = [req EXCEPT ![r] = Respond(rq, 200)]
    /\ UNCHANGED <<projects, tasks, subtasks, notes, nextId>>

\* A save whose failed version check still writes the role.
roleSaveDirty(r) ==
    /\ req[r].pc = "roleSave"
    /\ ~Locked(req[r].doc.id)
    /\ LET rq == req[r]
           updated == Assign(rq.doc, rq.body, {"role"}) IN
       IF VersionMatches(members, rq.doc)
       THEN /\ Modified(rq.doc, updated) # {} => rq.doc.ver < MaxVersion
            /\ members' = SaveVersioned(members, rq.doc, updated)
            /\ req' = [req EXCEPT ![r] = Respond(rq, 200)]
       ELSE /\ req' = [req EXCEPT ![r] = Caught(rq, VersionError, "roleFind")]
            /\ members' = SavePlain(members, rq.doc, updated)
    /\ UNCHANGED <<projects, tasks, subtasks, notes, nextId>>

\* retryWithOptimisticLocking, updateDocument and doc.save(): only the
\* modified path (role) is written, and the version key is incremented.
roleSave(r) ==
    /\ req[r].pc = "roleSave"
    /\ ~Locked(req[r].doc.id)
    /\ LET rq == req[r]
           updated == Assign(rq.doc, rq.body, {"role"}) IN
       IF VersionMatches(members, rq.doc)
       THEN /\ Modified(rq.doc, updated) # {} => rq.doc.ver < MaxVersion
            /\ members' = SaveVersioned(members, rq.doc, updated)
            /\ req' = [req EXCEPT ![r] = Respond(rq, 200)]
       ELSE /\ req' = [req EXCEPT ![r] = Caught(rq, VersionError, "roleFind")]
            /\ UNCHANGED members
    /\ UNCHANGED <<projects, tasks, subtasks, notes, nextId>>

----------------------------------------------------------------------------
(* removeProjectMember *)

\* ProjectMember.findOne({ project, user })
removeProjectMember(r) ==
    /\ req[r].pc = "removeProjectMember"
    /\ LET rq == req[r]
           membership == FindMember(rq.pid, rq.uid) IN
       req' = [req EXCEPT ![r] =
                 IF membership = NoDoc
                 THEN Throw(rq, ApiError(404))
                 ELSE [rq EXCEPT !.doc = membership, !.pc = "removeDelete"]]
    /\ UNCHANGED <<db, nextId>>

\* A removal that also unassigns the removed user's tasks.
removeDeleteUnassign(r) ==
    /\ req[r].pc = "removeDelete"
    /\ ~Locked(req[r].doc.id)
    /\ members' = {m \in members : m.id # req[r].doc.id}
    /\ tasks' = {IF t.assignee = req[r].uid THEN [t EXCEPT !.assignee = "null"] ELSE t
                   : t \in tasks}
    /\ req' = [req EXCEPT ![r] = Respond(req[r], 200)]
    /\ UNCHANGED <<projects, subtasks, notes, nextId>>

\* ProjectMember.findByIdAndDelete(membership._id)
removeDelete(r) ==
    /\ req[r].pc = "removeDelete"
    /\ ~Locked(req[r].doc.id)
    /\ members' = {m \in members : m.id # req[r].doc.id}
    /\ req' = [req EXCEPT ![r] = Respond(req[r], 200)]
    /\ UNCHANGED <<projects, tasks, subtasks, notes, nextId>>

----------------------------------------------------------------------------
(* Project reads and updateProject *)

\* ProjectMember.find({ user }), ProjectMember.aggregate
getUserProjects(r) ==
    /\ req[r].pc = "getUserProjects"
    /\ req' = [req EXCEPT ![r] = Respond([req[r] EXCEPT !.looked = TRUE], 200)]
    /\ UNCHANGED <<db, nextId>>

\* Project.findById, ProjectMember.find({ project })
getProjectById(r) ==
    /\ req[r].pc = "getProjectById"
    /\ req' = [req EXCEPT ![r] =
                 IF FindProject(req[r].pid) = NoDoc
                 THEN Throw(req[r], ApiError(404))
                 ELSE Respond(req[r], 200)]
    /\ UNCHANGED <<db, nextId>>

\* ProjectMember.find({ project })
getProjectMembers(r) ==
    /\ req[r].pc = "getProjectMembers"
    /\ req' = [req EXCEPT ![r] = Respond(req[r], 200)]
    /\ UNCHANGED <<db, nextId>>

\* retryWithOptimisticLocking, findDocument (Project.findById) and
\* updateDocument (the name check)
updateProject(r) ==
    /\ req[r].pc = "updateProject"
    /\ LET rq == req[r]
           project == FindProject(rq.pid) IN
       req' = [req EXCEPT ![r] =
                 IF project = NoDoc
                 THEN Caught(rq, ApiError(404), "updateProject")
                 ELSE IF Trim(rq.body.name) = ""
                 THEN Caught(rq, ApiError(400), "updateProject")
                 ELSE [rq EXCEPT !.doc = project, !.pc = "projectSave"]]
    /\ UNCHANGED <<db, nextId>>

\* A save that writes the whole in-memory document, whatever is stored.
projectSaveWhole(r) ==
    /\ req[r].pc = "projectSave"
    /\ ~Locked(req[r].doc.id)
    /\ LET rq == req[r]
           updated == Assign(rq.doc, Trimmed(rq.body, {"name", "description"}),
                             {"name", "description"}) IN
       /\ projects' = {IF p.id = rq.doc.id THEN updated ELSE p : p \in projects}
       /\ req' = [req EXCEPT ![r] = Respond(rq, 200)]
    /\ UNCHANGED <<members, tasks, subtasks, notes, nextId>>

\* retryWithOptimisticLocking, doc.save()
projectSave(r) ==
    /\ req[r].pc = "projectSave"
    /\ ~Locked(req[r].doc.id)
    /\ LET rq == req[r]
           updated == Assign(rq.doc, Trimmed(rq.body, {"name", "description"}),
                             {"name", "description"}) IN
       IF VersionMatches(projects, rq.doc)
       THEN /\ Modified(rq.doc, updated) # {} => rq.doc.ver < MaxVersion
            /\ projects' = SaveVersioned(projects, rq.doc, updated)
            /\ req' = [req EXCEPT ![r] = Respond(rq, 200)]
       ELSE /\ req' = [req EXCEPT ![r] = Caught(rq, VersionError, "updateProject")]
            /\ UNCHANGED projects
    /\ UNCHANGED <<members, tasks, subtasks, notes, nextId>>

----------------------------------------------------------------------------
(* Notes *)

\* Title check, then Project.findById
createNote(r) ==
    /\ req[r].pc = "createNote"
    /\ LET rq == req[r] IN
       req' = [req EXCEPT ![r] =
                 IF rq.body.title = "undefined" \/ Trim(rq.body.title) = ""
                 THEN Throw(rq, ApiError(400))
                 ELSE IF ~IsValidObjectId(rq.pid) THEN Throw(rq, CastError)
                 ELSE IF FindProject(rq.pid) = NoDoc
                      THEN Throw([rq EXCEPT !.looked = TRUE], ApiError(404))
                      ELSE [rq EXCEPT !.looked = TRUE, !.pc = "noteCreate"]]
    /\ UNCHANGED <<db, nextId>>

\* Note.create
noteCreate(r) ==
    /\ req[r].pc = "noteCreate"
    /\ nextId <= MaxId
    /\ LET rq == req[r] IN
       /\ notes' = notes \cup
             {[id |-> nextId, project |-> rq.pid, title |-> Trim(rq.body.title),
               content |-> IF rq.body.content = "undefined" THEN ""
                           ELSE Trim(rq.body.content),
               createdBy |-> rq.user]}
       /\ req' = [req EXCEPT ![r] = Respond([rq EXCEPT !.did = nextId], 201)]
    /\ nextId' = nextId + 1
    /\ UNCHANGED <<projects, members, tasks, subtasks>>

\* Note.find({ project })
getProjectNotes(r) ==
    /\ req[r].pc = "getProjectNotes"
    /\ req' = [req EXCEPT ![r] = Respond(req[r], 200)]
    /\ UNCHANGED <<db, nextId>>

\* Note.findOne({ _id, project })
getNoteById(r) ==
    /\ req[r].pc = "getNoteById"
    /\ req' = [req EXCEPT ![r] =
                 IF FindNoteIn(req[r].did, req[r].pid) = NoDoc
                 THEN Throw(req[r], ApiError(404))
                 ELSE Respond(req[r], 200)]
    /\ UNCHANGED <<db, nextId>>

\* Note.findOne({ _id, project }), then the title check
updateNote(r) ==
    /\ req[r].pc = "updateNote"
    /\ LET rq == req[r]
           note == IF IsValidObjectId(rq.pid) THEN FindNoteIn(rq.did, rq.pid) ELSE NoDoc IN
       req' = [req EXCEPT ![r] =
                 IF ~IsValidObjectId(rq.pid) THEN Throw(rq, CastError)
                 ELSE IF note = NoDoc THEN Throw([rq EXCEPT !.looked = TRUE], ApiError(404))
                 ELSE IF Trim(rq.body.title) = ""
                 THEN Throw([rq EXCEPT !.looked = TRUE], ApiError(400))
                 ELSE [rq EXCEPT !.looked = TRUE, !.doc = note, !.pc = "noteSave"]]
    /\ UNCHANGED <<db, nextId>>

\* note.save()
noteSave(r) ==
    /\ req[r].pc = "noteSave"
    /\ ~Locked(req[r].doc.id)
    /\ LET rq == req[r]
           updated == Assign(rq.doc, Trimmed(rq.body, {"title", "content"}),
                             {"title", "content"}) IN
       IF \E n \in notes : n.id = rq.doc.id
       THEN /\ notes' = SavePlain(notes, rq.doc, updated)
            /\ req' = [req EXCEPT ![r] = Respond(rq, 200)]
       ELSE /\ req' = [req EXCEPT ![r] = Throw(rq, DocumentNotFound)]
            /\ UNCHANGED notes
    /\ UNCHANGED <<projects, members, tasks, subtasks, nextId>>

\* Note.findOne({ _id, project })
deleteNote(r) ==
    /\ req[r].pc = "deleteNote"
    /\ LET rq == req[r] IN
       req' = [req EXCEPT ![r] =
                 IF ~IsValidObjectId(rq.pid) THEN Throw(rq, CastError)
                 ELSE IF FindNoteIn(rq.did, rq.pid) = NoDoc
                      THEN Throw([rq EXCEPT !.looked = TRUE], ApiError(404))
                      ELSE [rq EXCEPT !.looked = TRUE, !.pc = "noteDelete"]]
    /\ UNCHANGED <<db, nextId>>

\* Note.findByIdAndDelete(noteId)
noteDelete(r) ==
    /\ req[r].pc = "noteDelete"
    /\ ~Locked(req[r].did)
    /\ notes' = {n \in notes : n.id # req[r].did}
    /\ req' = [req EXCEPT ![r] = Respond(req[r], 200)]
    /\ UNCHANGED <<projects, members, tasks, subtasks, nextId>>

----------------------------------------------------------------------------
(* Tasks *)

\* Title check, then User.findById(assignee) when an assignee is given
createTask(r) ==
    /\ req[r].pc = "createTask"
    /\ LET rq == req[r] IN
       req' = [req EXCEPT ![r] =
                 IF rq.body.title = "undefined" \/ Trim(rq.body.title) = ""
                 THEN Throw(rq, ApiError(400))
                 ELSE IF rq.body.assignee # "undefined" /\ rq.body.assignee \notin Users
                      THEN Throw(rq, ApiError(404))
                      ELSE [rq EXCEPT !.pc = "taskCreate"]]
    /\ UNCHANGED <<db, nextId>>

\* Task.create
taskCreate(r) ==
    /\ req[r].pc = "taskCreate"
    /\ nextId <= MaxId
    /\ LET rq == req[r] IN
       /\ tasks' = tasks \cup
             {[id |-> nextId, project |-> rq.pid, title |-> Trim(rq.body.title),
               description |-> IF rq.body.description = "undefined" THEN ""
                               ELSE Trim(rq.body.description),
               assignee |-> IF rq.body.assignee = "undefined" THEN "null"
                            ELSE rq.body.assignee,
               status |-> "todo", createdBy |-> rq.user]}
       /\ req' = [req EXCEPT ![r] = Respond([rq EXCEPT !.did = nextId], 201)]
    /\ nextId' = nextId + 1
    /\ UNCHANGED <<projects, members, subtasks, notes>>

\* Task.find({ project })
getProjectTasks(r) ==
    /\ req[r].pc = "getProjectTasks"
    /\ req' = [req EXCEPT ![r] = Respond(req[r], 200)]
    /\ UNCHANGED <<db, nextId>>

\* Task.findOne({ _id, project })
getTaskById(r) ==
    /\ req[r].pc = "getTaskById"
    /\ req' = [req EXCEPT ![r] =
                 IF FindTaskIn(req[r].did, req[r].pid) = NoDoc
                 THEN Throw(req[r], ApiError(404))
                 ELSE Respond(req[r], 200)]
    /\ UNCHANGED <<db, nextId>>

validStatuses == {"todo", "in_progress", "done"}

\* Task.findOne({ _id, project }), User.findById(assignee), the status and
\* title checks
updateTask(r) ==
    /\ req[r].pc = "updateTask"
    /\ LET rq == req[r]
           task == FindTaskIn(rq.did, rq.pid) IN
       req' = [req EXCEPT ![r] =
                 IF task = NoDoc THEN Throw(rq, ApiError(404))
                 ELSE IF rq.body.assignee # "undefined" /\ rq.body.assignee \notin Users
                 THEN Throw(rq, ApiError(404))
                 ELSE IF rq.body.status # "undefined" /\ rq.body.status \notin validStatuses
                 THEN Throw(rq, ApiError(400))
                 ELSE IF Trim(rq.body.title) = "" THEN Throw(rq, ApiError(400))
                 ELSE [rq EXCEPT !.doc = task, !.pc = "taskSave"]]
    /\ UNCHANGED <<db, nextId>>

\* task.save()
taskSave(r) ==
    /\ req[r].pc = "taskSave"
    /\ ~Locked(req[r].doc.id)
    /\ LET rq == req[r]
           updated == Assign(rq.doc, Trimmed(rq.body, {"title", "description"}),
                             {"title", "description", "assignee", "status"}) IN
       IF \E t \in tasks : t.id = rq.doc.id
       THEN /\ tasks' = SavePlain(tasks, rq.doc, updated)
            /\ req' = [req EXCEPT ![r] = Respond(rq, 200)]
       ELSE /\ req' = [req EXCEPT ![r] = Throw(rq, DocumentNotFound)]
            /\ UNCHANGED tasks
    /\ UNCHANGED <<projects, members, subtasks, notes, nextId>>

\* Task.findOne({ _id, project })
deleteTask(r) ==
    /\ req[r].pc = "deleteTask"
    /\ req' = [req EXCEPT ![r] =
                 IF FindTaskIn(req[r].did, req[r].pid) = NoDoc
                 THEN Throw(req[r], ApiError(404))
                 ELSE [req[r] EXCEPT !.pc = "taskDeleteSubtasks"]]
    /\ UNCHANGED <<db, nextId>>

\* Subtask.deleteMany({ task: taskId })
taskDeleteSubtasks(r) ==
    /\ req[r].pc = "taskDeleteSubtasks"
    /\ \A x \in subtasks : x.task = req[r].did => ~Locked(x.id)
    /\ subtasks' = {x \in subtasks : x.task # req[r].did}
    /\ req' = [req EXCEPT ![r].pc = "taskDelete"]
    /\ UNCHANGED <<projects, members, tasks, notes, nextId>>

\* Task.findByIdAndDelete(taskId)
taskDelete(r) ==
    /\ req[r].pc = "taskDelete"
    /\ ~Locked(req[r].did)
    /\ tasks' = {t \in tasks : t.id # req[r].did}
    /\ req' = [req EXCEPT ![r] = Respond(req[r], 200)]
    /\ UNCHANGED <<projects, members, subtasks, notes, nextId>>

\* A storage call of deleteTask rejects: nothing is rolled back, the error
\* reaches the global error handler.
taskStorageFails(r) ==
    /\ req[r].pc \in {"taskDeleteSubtasks", "taskDelete"}
    /\ req' = [req EXCEPT ![r] = Throw(req[r], StorageError)]
    /\ UNCHANGED <<db, nextId>>

----------------------------------------------------------------------------
(* Subtasks *)

\* Title check, then Task.findOne({ _id: taskId, project })
createSubtask(r) ==
    /\ req[r].pc = "createSubtask"
    /\ LET rq == req[r] IN
       req' = [req EXCEPT ![r] =
                 IF rq.body.title = "undefined" \/ Trim(rq.body.title) = ""
                 THEN Throw(rq, ApiError(400))
                 ELSE IF FindTaskIn(rq.did, rq.pid) = NoDoc THEN Throw(rq, ApiError(404))
                 ELSE [rq EXCEPT !.pc = "subtaskCreate"]]
    /\ UNCHANGED <<db, nextId>>

\* Subtask.create
subtaskCreate(r) ==
    /\ req[r].pc = "subtaskCreate"
    /\ nextId <= MaxId
    /\ LET rq == req[r] IN
       /\ subtasks' = subtasks \cup
             {[id |-> nextId, task |-> rq.did, title |-> Trim(rq.body.title),
               description |-> IF rq.body.description = "undefined" THEN ""
                               ELSE Trim(rq.body.description),
               isCompleted |-> "false", createdBy |-> rq.user]}
       /\ req' = [req EXCEPT ![r] = Respond(rq, 201)]
    /\ nextId' = nextId + 1
    /\ UNCHANGED <<projects, members, tasks, notes>>

\* The fields of the body updateSubtask applies for a project role.
SubtaskFields(userRole) ==
    IF userRole = "member" THEN {"isCompleted"}
    ELSE IF userRole \in {"admin", "project_admin"}
         THEN {"title", "description", "isCompleted"}
         ELSE {}

\* updateSubtask without the member branch's check of title and description.
updateSubtaskUngated(r) ==
    /\ req[r].pc = "updateSubtask"
    /\ LET rq == req[r]
           subtask == FindSubtask(rq.did)
           task == IF subtask = NoDoc THEN NoDoc ELSE FindTask(subtask.task)
           userRole == rq.mem.role IN
       req' = [req EXCEPT ![r] =
                 IF subtask = NoDoc THEN Throw(rq, ApiError(404))
                 ELSE IF task = NoDoc THEN Throw(rq, TypeError)
                 ELSE IF task.project # rq.pid THEN Throw(rq, ApiError(404))
                 ELSE IF userRole \in {"admin", "project_admin"} /\ Trim(rq.body.title) = ""
                 THEN Throw(rq, ApiError(400))
                 ELSE [rq EXCEPT !.doc = subtask, !.pc = "subtaskSave"]]
    /\ UNCHANGED <<db, nextId>>

\* Subtask.findById(subtaskId).populate('task'), the project check and the
\* role-dependent field checks
updateSubtask(r) ==
    /\ req[r].pc = "updateSubtask"
    /\ LET rq == req[r]
           subtask == FindSubtask(rq.did)
           task == IF subtask = NoDoc THEN NoDoc ELSE FindTask(subtask.task)
           userRole == rq.mem.role IN
       req' = [req EXCEPT ![r] =
                 IF subtask = NoDoc THEN Throw(rq, ApiError(404))
                 ELSE IF task = NoDoc THEN Throw(rq, TypeError)
                 ELSE IF task.project # rq.pid THEN Throw(rq, ApiError(404))
                 ELSE IF userRole = "member"
                         /\ (rq.body.title # "undefined" \/ rq.body.description # "undefined")
                 THEN Throw(rq, ApiError(403))
                 ELSE IF userRole \in {"admin", "project_admin"} /\ Trim(rq.body.title) = ""
                 THEN Throw(rq, ApiError(400))
                 ELSE [rq EXCEPT !.doc = subtask, !.pc = "subtaskSave"]]
    /\ UNCHANGED <<db, nextId>>

\* subtask.save()
subtaskSave(r) ==
    /\ req[r].pc = "subtaskSave"
    /\ ~Locked(req[r].doc.id)
    /\ LET rq == req[r]
           updated == Assign(rq.doc, Trimmed(rq.body, {"title", "description"}),
                             SubtaskFields(rq.mem.role)) IN
       IF \E x \in subtasks : x.id = rq.doc.id
       THEN /\ subtasks' = SavePlain(subtasks, rq.doc, updated)
            /\ req' = [req EXCEPT ![r] = Respond(rq, 200)]
       ELSE /\ req' = [req EXCEPT ![r] = Throw(rq, DocumentNotFound)]
            /\ UNCHANGED subtasks
    /\ UNCHANGED <<projects, members, tasks, notes, nextId>>

\* Subtask.findById(subtaskId).populate('task') and the project check
deleteSubtask(r) ==
    /\ req[r].pc = "deleteSubtask"
    /\ LET rq == req[r]
           subtask == FindSubtask(rq.did)
           task == IF subtask = NoDoc THEN NoDoc ELSE FindTask(subtask.task) IN
       req' = [req EXCEPT ![r] =
                 IF subtask = NoDoc THEN Throw(rq, ApiError(404))
                 ELSE IF task = NoDoc THEN Throw(rq, TypeError)
                 ELSE IF task.project # rq.pid THEN Throw(rq, ApiError(404))
                 ELSE [rq EXCEPT !.pc = "subtaskDelete"]]
    /\ UNCHANGED <<db, nextId>>

\* Subtask.findByIdAndDelete(subtaskId)
subtaskDelete(r) ==
    /\ req[r].pc = "subtaskDelete"
    /\ ~Locked(req[r].did)
    /\ subtasks' = {x \in subtasks : x.id # req[r].did}
    /\ req' = [req EXCEPT ![r] = Respond(req[r], 200)]
    /\ UNCHANGED <<projects, members, tasks, notes, nextId>>

----------------------------------------------------------------------------
(* The membership registry under concurrent requests *)

MemberOps ==
    {"createProject", "addProjectMember", "updateProjectMemberRole",
     "removeProjectMember", "deleteProject"}

ExistingProjectIds == {p.id : p \in projects}

MemberInputs ==
    [ops     |-> MemberOps,
     tokens  |-> {"u1"},
     pids    |-> [op \in AllOps |->
                    IF HasProjectId(op) THEN ExistingProjectIds ELSE {0}],
     uids    |-> [op \in AllOps |->
                    IF op \in {"updateProjectMemberRole", "removeProjectMember"}
                    THEN {"u2"} ELSE {"none"}],
     dids    |-> [op \in AllOps |-> {0}],
     bodies  |-> [op \in AllOps |->
                    CASE op = "createProject" ->
                            {[EmptyBody EXCEPT !.name = "n1"]}
                      [] op = "addProjectMember" ->
                            {[EmptyBody EXCEPT !.email = "u2", !.role = ro]
                                : ro \in {"member"}}
                      [] op = "updateProjectMemberRole" ->
                            {[EmptyBody EXCEPT !.role = ro]
                                : ro \in {"member", "project_admin"}}
                      [] OTHER -> {EmptyBody}]]

Init ==
    /\ projects = {}
    /\ members = {}
    /\ tasks = {}
    /\ subtasks = {}
    /\ notes = {}
    /\ nextId = 1
    /\ req = [r \in Reqs |-> IdleReq]

Next ==
    \E r \in Reqs :
        \/ Start(r, MemberInputs)
        \/ Finish(r)
        \/ verifyJWT(r)
        \/ verifyRoles(r)
        \/ verifyProjectMembership(r)
        \/ verifyProjectMembershipFind(r)
        \/ verifyProjectRole(r)
        \/ createProject(r)
        \/ txCreateProject(r)
        \/ txCreateMember(r)
        \/ txCommitCreate(r)
        \/ deleteProject(r)
        \/ txFindTasks(r)
        \/ txDeleteSubtasks(r)
        \/ txDeleteTasks(r)
        \/ txDeleteNotes(r)
        \/ txDeleteMembers(r)
        \/ txDeleteProject(r)
        \/ txCommitDelete(r)
        \/ addProjectMember(r)
        \/ addFindUser(r)
        \/ addFindMember(r)
        \/ addCreate(r)
        \/ updateProjectMemberRole(r)
        \/ roleFind(r)
        \/ roleSave(r)
        \/ removeProjectMember(r)
        \/ removeDelete(r)

Spec == Init /\ [][Next]_vars

\* C1: in every reachable state, whatever the interleaving of createProject,
\* addProjectMember, updateProjectMemberRole, removeProjectMember and
\* deleteProject requests, there is at most one ProjectMember record for each
\* (project, user) pair.
C1_UniqueMembership ==
    \A m1 \in members : \A m2 \in members :
        (m1.project = m2.project /\ m1.user = m2.user) => m1 = m2

\* Two addProjectMember requests raced for the same pair: the second insert
\* was refused by the index and the pair has its one record.
C1_SecondInsertRefused ==
    \E r \in Reqs :
        /\ req[r].pc = "done"
        /\ req[r].op = "addProjectMember"
        /\ req[r].uid # "none"
        /\ req[r].status = 500
        /\ FindMember(req[r].pid, req[r].uid) # NoDoc

RoleUpdateDone(r) ==
    /\ req[r].pc = "done"
    /\ req[r].op = "updateProjectMemberRole"
    /\ req[r].status = 200

\* C5: of two concurrent updateProjectMemberRole requests on one membership,
\* a save succeeds only against the version and role its request fetched (so
\* the loser's first save fails the version check and its retry has fetched
\* the winner's persisted role before it writes its own), a failed version
\* check leads to a re-fetch, and once both have answered 200 the stored role
\* is one of the two submitted roles.
C5_RoleRace ==
    /\ [](\A r1 \in Reqs : \A r2 \in Reqs \ {r1} :
            (/\ RoleUpdateDone(r1) /\ RoleUpdateDone(r2)
             /\ req[r1].pid = req[r2].pid /\ req[r1].uid = req[r2].uid
             /\ FindMember(req[r1].pid, req[r1].uid) # NoDoc)
            => FindMember(req[r1].pid, req[r1].uid).role
                  \in {req[r1].body.role, req[r2].body.role})
    /\ [][\A r \in Reqs :
            (req[r].pc = "roleSave" /\ req'[r] # req[r]) =>
               IF req'[r].pc = "done" /\ req'[r].status = 200
               THEN /\ \E m \in members :
                         /\ m.id = req[r].doc.id
                         /\ m.ver = req[r].doc.ver
                         /\ m.role = req[r].doc.role
                    /\ \E m \in members' :
                         /\ m.id = req[r].doc.id
                         /\ m.role = req[r].body.role
               ELSE /\ members' = members
                    /\ \/ req'[r].pc = "roleFind" /\ req'[r].attempt = req[r].attempt + 1
                       \/ req'[r].pc = "done" /\ req'[r].status = 500
                                              /\ req[r].attempt = maxRetries
         ]_vars

\* The loser of a role race is about to save again: it failed the version
\* check once, re-fetched, and holds the role the winner persisted.
C5_LoserRefetchedWinner ==
    \E r1 \in Reqs : \E r2 \in Reqs \ {r1} :
        /\ RoleUpdateDone(r1)
        /\ req[r2].pc = "roleSave"
        /\ req[r2].attempt >= 1
        /\ req[r2].pid = req[r1].pid /\ req[r2].uid = req[r1].uid
        /\ req[r2].body.role # req[r1].body.role
        /\ req[r2].doc.role = req[r1].body.role
        /\ req[r2].doc.ver >= 1

\* C6: every addProjectMember request for a pair that already has a
\* membership ends with 409 Conflict, the loser of two concurrent requests
\* for the same pair included.  (A request that resolved the user to add and
\* did not create the record is one that found, or ran into, an existing
\* membership.)
C6_DuplicateAddConflicts ==
    \A r \in Reqs :
        (/\ req[r].pc = "done"
         /\ req[r].op = "addProjectMember"
         /\ req[r].uid # "none"
         /\ req[r].status # 201)
        => req[r].status = 409

----------------------------------------------------------------------------
(* The transactional mutators under storage failures and concurrent writers *)

\* A project with its owner's membership, a task, a subtask and a note.  The
\* documents present at start have ids above SeedId; new ones get 1..MaxId.
SeedProjects == {[id |-> SeedId + 1, name |-> "n0", description |-> "",
                  owner |-> "u1", ver |-> 0]}
SeedOwner == [id |-> SeedId + 2, project |-> SeedId + 1, user |-> "u1",
              role |-> "admin", joinedAt |-> SeedId, addedBy |-> "u1", ver |-> 0]
SeedTasks == {[id |-> SeedId + 4, project |-> SeedId + 1, title |-> "t0",
               description |-> "", assignee |-> "u2", status |-> "todo",
               createdBy |-> "u1"]}
SeedSubtasks == {[id |-> SeedId + 5, task |-> SeedId + 4, title |-> "t0",
                  description |-> "", isCompleted |-> "false", createdBy |-> "u2"]}
SeedNotes == {[id |-> SeedId + 6, project |-> SeedId + 1, title |-> "t0",
               content |-> "", createdBy |-> "u1"]}

TxInit ==
    /\ projects = SeedProjects
    /\ members = {SeedOwner}
    /\ tasks = SeedTasks
    /\ subtasks = SeedSubtasks
    /\ notes = SeedNotes
    /\ nextId = 1
    /\ req = [r \in Reqs |-> IdleReq]

\* Slot r1 creates and deletes projects.
OwnerInputs ==
    [ops     |-> {"createProject", "deleteProject"},
     tokens  |-> {"u1"},
     pids    |-> [op \in AllOps |->
                    IF HasProjectId(op) THEN ExistingProjectIds ELSE {0}],
     uids    |-> [op \in AllOps |-> {"none"}],
     dids    |-> [op \in AllOps |-> {0}],
     bodies  |-> [op \in AllOps |-> {[EmptyBody EXCEPT !.name = "n1"]}]]

\* Slot r2 creates tasks in existing projects.
TaskWriterInputs ==
    [ops     |-> {"createTask"},
     tokens  |-> {"u1"},
     pids    |-> [op \in AllOps |-> ExistingProjectIds],
     uids    |-> [op \in AllOps |-> {"none"}],
     dids    |-> [op \in AllOps |-> {0}],
     bodies  |-> [op \in AllOps |-> {[EmptyBody EXCEPT !.title = "t1"]}]]

\* Every storage call of a transaction may fail (abortTransaction).
TxNext ==
    \/ Start("r1", OwnerInputs)
    \/ Start("r2", TaskWriterInputs)
    \/ \E r \in Reqs :
        \/ Finish(r)
        \/ verifyJWT(r)
        \/ verifyRoles(r)
        \/ verifyProjectMembership(r)
        \/ verifyProjectMembershipFind(r)
        \/ verifyProjectRole(r)
        \/ abortTransaction(r)
        \/ createProject(r)
        \/ txCreateProject(r)
        \/ txCreateMember(r)
        \/ txCommitCreate(r)
        \/ deleteProject(r)
        \/ txFindTasks(r)
        \/ txDeleteSubtasks(r)
        \/ txDeleteTasks(r)
        \/ txDeleteNotes(r)
        \/ txDeleteMembers(r)
        \/ txDeleteProject(r)
        \/ txCommitDelete(r)
        \/ createTask(r)
        \/ taskCreate(r)

TxSpec == TxInit /\ [][TxNext]_vars

----------------------------------------------------------------------------
(* The cascade delete against concurrent writers *)

\* Slot r1 deletes the project.
DeleteInputs ==
    [ops     |-> {"deleteProject"},
     tokens  |-> {"u1"},
     pids    |-> [op \in AllOps |-> ExistingProjectIds],
     uids    |-> [op \in AllOps |-> {"none"}],
     dids    |-> [op \in AllOps |-> {0}],
     bodies  |-> [op \in AllOps |-> {EmptyBody}]]

\* Slot r2 writes into the project.
WriterInputs ==
    [ops     |-> {"createTask", "createSubtask", "createNote", "addProjectMember"},
     tokens  |-> {"u1"},
     pids    |-> [op \in AllOps |-> ExistingProjectIds],
     uids    |-> [op \in AllOps |-> {"none"}],
     dids    |-> [op \in AllOps |->
                    IF op = "createSubtask" THEN {t.id : t \in tasks} ELSE {0}],
     bodies  |-> [op \in AllOps |->
                    IF op = "addProjectMember"
                    THEN {[EmptyBody EXCEPT !.email = "u2", !.role = "member"]}
                    ELSE {[EmptyBody EXCEPT !.title = "t1"]}]]

CascadeNext ==
    \/ Start("r1", DeleteInputs)
    \/ Start("r2", WriterInputs)
    \/ \E r \in Reqs :
        \/ Finish(r)
        \/ verifyJWT(r)
        \/ verifyRoles(r)
        \/ verifyProjectMembership(r)
        \/ verifyProjectMembershipFind(r)
        \/ verifyProjectRole(r)
        \/ deleteProject(r)
        \/ txFindTasks(r)
        \/ txDeleteSubtasks(r)
        \/ txDeleteTasks(r)
        \/ txDeleteNotes(r)
        \/ txDeleteMembers(r)
        \/ txDeleteProject(r)
        \/ txCommitDelete(r)
        \/ createTask(r)
        \/ taskCreate(r)
        \/ createSubtask(r)
        \/ subtaskCreate(r)
        \/ createNote(r)
        \/ noteCreate(r)
        \/ addProjectMember(r)
        \/ addFindUser(r)
        \/ addFindMember(r)
        \/ addCreate(r)

CascadeSpec == TxInit /\ [][CascadeNext]_vars

\* C2: once a deleteProject request has completed successfully, no Task, no
\* Subtask of any of the project's tasks, no Note and no ProjectMember
\* referencing the project exists, records written by concurrent createTask,
\* createSubtask, createNote and addProjectMember requests included.  (Every
\* subtask starts with its task stored, and only deleteProject deletes tasks
\* here, so a subtask without its task is one of the deleted project's.)
C2_NothingReferencesDeleted ==
    \A r \in Reqs :
        (req[r].pc = "done" /\ req[r].op = "deleteProject" /\ req[r].status = 200)
        => /\ \A t \in tasks : t.project # req[r].pid
           /\ \A x \in subtasks : FindTask(x.task) # NoDoc
           /\ \A n \in notes : n.project # req[r].pid
           /\ \A m \in members : m.project # req[r].pid

\* C3: deleteProject is all-or-nothing.  Every step of a deleteProject
\* request leaves all five collections as they are, except the commit, which
\* answers 200 and removes the project and every task, subtask, note and
\* membership of its snapshot in that one step; so a request that ends with
\* an error has changed nothing, and no other request sees part of a cascade.
C3_DeleteAllOrNothing ==
    [][\A r \in Reqs :
          (req[r].op = "deleteProject" /\ req[r].pc \notin {"idle", "done"}
           /\ req'[r] # req[r]) =>
             \/ db' = db
             \/ /\ req[r].pc = "txCommitDelete"
                /\ req'[r].pc = "done" /\ req'[r].status = 200
                /\ req[r].txn.snap.project # {}
                /\ projects' = projects \ req[r].txn.snap.project
                /\ members'  = members \ req[r].txn.snap.members
                /\ tasks'    = tasks \ req[r].txn.snap.tasks
                /\ subtasks' = subtasks \ req[r].txn.snap.subtasks
                /\ notes'    = notes \ req[r].txn.snap.notes
      ]_vars

\* A deleteProject request ended with an error and the project still has its
\* owner's membership and its first task, subtask and note.
C3_FailedDeleteLeftAll ==
    \E r \in Reqs :
        /\ req[r].pc = "done" /\ req[r].op = "deleteProject"
        /\ req[r].status = 500
        /\ req[r].pid = SeedId + 1
        /\ SeedProjects \subseteq projects
        /\ SeedOwner \in members
        /\ SeedTasks \subseteq tasks
        /\ SeedSubtasks \subseteq subtasks
        /\ SeedNotes \subseteq notes

\* C4: createProject is atomic.  Every step of a createProject request leaves
\* projects and memberships as they are, except the commit, which answers 201
\* and stores the new Project and its creator's admin membership in that one
\* step; so every stored project has its owner's admin membership, and a
\* request that ends with an error has stored neither.
C4_CreateAtomic ==
    /\ [](\A p \in projects :
            \E m \in members :
               m.project = p.id /\ m.user = p.owner /\ m.role = "admin")
    /\ [][\A r \in Reqs :
            (req[r].op = "createProject" /\ req[r].pc \notin {"idle", "done"}
             /\ req'[r] # req[r]) =>
               \/ projects' = projects /\ members' = members
               \/ /\ req[r].pc = "txCommitCreate"
                  /\ req'[r].pc = "done" /\ req'[r].status = 201
                  /\ \E p \in projects' \ projects : \E m \in members' \ members :
                        /\ projects' = projects \cup {p}
                        /\ members' = members \cup {m}
                        /\ p.owner = req[r].user
                        /\ m.project = p.id /\ m.user = req[r].user
                        /\ m.role = "admin"
         ]_vars

\* A createProject request answered 201, and the project and its creator's
\* admin membership are both stored.
C4_CreatedBoth ==
    \E r \in Reqs :
        /\ req[r].pc = "done" /\ req[r].op = "createProject"
        /\ req[r].status = 201
        /\ FindProject(req[r].pid) # NoDoc
        /\ FindMember(req[r].pid, req[r].user) # NoDoc
        /\ FindMember(req[r].pid, req[r].user).role = "admin"

----------------------------------------------------------------------------
(* The authorization gate: one request, of any route, principal, project   *)
(* identifier and body, against a populated project                        *)

\* u1 owns the project, u2 is a member of it with role member or
\* project_admin, u3 (a system admin) is no member of it.
SeedMember(role) ==
    [id |-> SeedId + 3, project |-> SeedId + 1, user |-> "u2",
     role |-> role, joinedAt |-> SeedId, addedBy |-> "u1", ver |-> 0]

GateInit ==
    /\ projects = SeedProjects
    /\ \E role \in {"member", "project_admin"} :
          members = {SeedOwner, SeedMember(role)}
    /\ tasks = SeedTasks
    /\ subtasks = SeedSubtasks
    /\ notes = SeedNotes
    /\ nextId = 1
    /\ req = [r \in Reqs |-> IdleReq]

\* Bodies of the updateSubtask requests: every combination of title,
\* description and isCompleted being present, and a blank title.
SubtaskBodies ==
    {[EmptyBody EXCEPT !.title = t, !.description = d, !.isCompleted = c] :
        t \in {"undefined", " t2 ", " "}, d \in {"undefined", "d1"},
        c \in {"undefined", "true"}}

GateInputs ==
    [ops     |-> AllOps,
     tokens  |-> {"u1", "u2", "u3", "gone", "none"},
     pids    |-> [op \in AllOps |->
                    IF HasProjectId(op)
                    THEN ExistingProjectIds \cup {InvalidId, AbsentId}
                    ELSE {0}],
     uids    |-> [op \in AllOps |->
                    IF op \in {"updateProjectMemberRole", "removeProjectMember"}
                    THEN {"u2", "u3"} ELSE {"none"}],
     dids    |-> [op \in AllOps |->
                    CASE op \in {"getNoteById", "updateNote", "deleteNote"} ->
                            {n.id : n \in notes} \cup {AbsentId}
                      [] op \in {"getTaskById", "updateTask", "deleteTask", "createSubtask"} ->
                            {t.id : t \in tasks} \cup {AbsentId}
                      [] op \in {"updateSubtask", "deleteSubtask"} ->
                            {x.id : x \in subtasks} \cup {AbsentId}
                      [] OTHER -> {0}],
     bodies  |-> [op \in AllOps |->
                    CASE op \in {"createProject", "updateProject"} ->
                            {EmptyBody, [EmptyBody EXCEPT !.name = "n1"]}
                      [] op = "addProjectMember" ->
                            {EmptyBody,
                             [EmptyBody EXCEPT !.email = "u3", !.role = "member"],
                             [EmptyBody EXCEPT !.email = "u3"],
                             [EmptyBody EXCEPT !.role = "member"],
                             [EmptyBody EXCEPT !.email = "u3", !.role = "owner"],
                             [EmptyBody EXCEPT !.email = "nobody", !.role = "member"],
                             [EmptyBody EXCEPT !.email = "u2", !.role = "project_admin"]}
                      [] op = "updateProjectMemberRole" ->
                            {[EmptyBody EXCEPT !.role = ro] :
                                ro \in {"undefined", "member", "project_admin", "owner"}}
                      [] op \in {"createNote", "updateNote", "createTask",
                                 "updateTask", "createSubtask"} ->
                            {EmptyBody, [EmptyBody EXCEPT !.title = "t1"]}
                      [] op = "updateSubtask" -> SubtaskBodies
                      [] OTHER -> {EmptyBody}]]

GateNext ==
    \/ Start("r1", GateInputs)
    \/ verifyJWT("r1")
    \/ verifyRoles("r1")
    \/ verifyProjectMembership("r1")
    \/ verifyProjectMembershipFind("r1")
    \/ verifyProjectRole("r1")
    \/ createProject("r1")
    \/ txCreateProject("r1")
    \/ txCreateMember("r1")
    \/ txCommitCreate("r1")
    \/ getUserProjects("r1")
    \/ getProjectById("r1")
    \/ updateProject("r1")
    \/ projectSave("r1")
    \/ deleteProject("r1")
    \/ txFindTasks("r1")
    \/ txDeleteSubtasks("r1")
    \/ txDeleteTasks("r1")
    \/ txDeleteNotes("r1")
    \/ txDeleteMembers("r1")
    \/ txDeleteProject("r1")
    \/ txCommitDelete("r1")
    \/ addProjectMember("r1")
    \/ addFindUser("r1")
    \/ addFindMember("r1")
    \/ addCreate("r1")
    \/ getProjectMembers("r1")
    \/ updateProjectMemberRole("r1")
    \/ roleFind("r1")
    \/ roleSave("r1")
    \/ removeProjectMember("r1")
    \/ removeDelete("r1")
    \/ createNote("r1")
    \/ noteCreate("r1")
    \/ getProjectNotes("r1")
    \/ getNoteById("r1")
    \/ updateNote("r1")
    \/ noteSave("r1")
    \/ deleteNote("r1")
    \/ noteDelete("r1")
    \/ createTask("r1")
    \/ taskCreate("r1")
    \/ getProjectTasks("r1")
    \/ getTaskById("r1")
    \/ updateTask("r1")
    \/ taskSave("r1")
    \/ deleteTask("r1")
    \/ taskDeleteSubtasks("r1")
    \/ taskDelete("r1")
    \/ createSubtask("r1")
    \/ subtaskCreate("r1")
    \/ updateSubtask("r1")
    \/ subtaskSave("r1")
    \/ deleteSubtask("r1")
    \/ subtaskDelete("r1")

GateSpec == GateInit /\ [][GateNext]_vars

\* Routes that read or mutate a project's notes, tasks, subtasks or
\* memberships.
ProjectContentOps ==
    NoteRouteOps \cup TaskRouteOps \cup
    {"addProjectMember", "getProjectMembers", "updateProjectMemberRole",
     "removeProjectMember"}

\* C7: every request that reads or mutates a project's notes, tasks,
\* subtasks or memberships is served only if the principal held a
\* ProjectMember record in that project when the guard chain ran, whatever
\* the principal's system role.  (The memberships stored before the request
\* arrived are the ones with ids above SeedId.)
C7_ServedOnlyToMembers ==
    \A r \in Reqs :
        (/\ req[r].pc = "done"
         /\ req[r].op \in ProjectContentOps
         /\ req[r].status \in {200, 201})
        => \E m \in members :
              m.project = req[r].pid /\ m.user = req[r].user /\ m.id > SeedId

\* Update and delete of a project, role change and removal of a member.
AdminOnlyOps ==
    {"updateProject", "deleteProject", "updateProjectMemberRole",
     "removeProjectMember"}

NonAdminMember(rq) ==
    /\ rq.op \in AdminOnlyOps
    /\ rq.mem # NoDoc
    /\ rq.mem.role \in {"member", "project_admin"}

SubtaskInProject(rq) ==
    /\ FindSubtask(rq.did) # NoDoc
    /\ FindTask(FindSubtask(rq.did).task) # NoDoc
    /\ FindTask(FindSubtask(rq.did).task).project = rq.pid

\* The subtask a successful updateSubtask of the given role must leave.
ExpectedSubtask(old, role, body) ==
    [old EXCEPT
       !.title = IF role # "member" /\ body.title # "undefined"
                 THEN Trim(body.title) ELSE @,
       !.description = IF role # "member" /\ body.description # "undefined"
                       THEN Trim(body.description) ELSE @,
       !.isCompleted = IF body.isCompleted # "undefined"
                       THEN body.isCompleted ELSE @]

\* C9: in updateSubtask, for a subtask of the project: a member whose body
\* has title or description is answered 403 and nothing changes, whether or
\* not isCompleted is there too; a member whose body has neither goes on to
\* the save; and the save answers 200 and changes, for a member, isCompleted
\* only, for an admin or project_admin, title, description and isCompleted as
\* given.
C9_SubtaskFieldGate ==
    [][\A r \in Reqs :
          (req[r].op = "updateSubtask" /\ req'[r] # req[r]) =>
             /\ (/\ req[r].pc = "updateSubtask"
                 /\ req[r].mem.role = "member"
                 /\ SubtaskInProject(req[r]))
                => IF req[r].body.title # "undefined"
                      \/ req[r].body.description # "undefined"
                   THEN /\ req'[r].pc = "done" /\ req'[r].status = 403
                        /\ db' = db
                   ELSE /\ req'[r].pc = "subtaskSave"
                        /\ db' = db
             /\ (req[r].pc = "subtaskSave" /\ FindSubtask(req[r].did) # NoDoc)
                => /\ req'[r].pc = "done" /\ req'[r].status = 200
                   /\ req[r].mem.role \in validRoles
                   /\ subtasks' =
                        (subtasks \ {FindSubtask(req[r].did)}) \cup
                        {ExpectedSubtask(FindSubtask(req[r].did), req[r].mem.role,
                                         req[r].body)}
                   /\ UNCHANGED <<projects, members, tasks, notes>>
      ]_vars

\* A member sent title together with isCompleted, was answered 403, and the
\* subtask is as it was.
C9_MemberRejected ==
    \E r \in Reqs :
        /\ req[r].pc = "done" /\ req[r].op = "updateSubtask"
        /\ req[r].mem # NoDoc
        /\ req[r].mem.role = "member"
        /\ req[r].body.title # "undefined"
        /\ req[r].body.isCompleted # "undefined"
        /\ req[r].status = 403
        /\ SeedSubtasks \subseteq subtasks

\* C10: on every route that carries a project identifier, a request whose
\* project identifier is syntactically invalid is rejected with 400; stated
\* here for the requests of an authenticated system admin.
C10_InvalidIdRejected ==
    \A r \in Reqs :
        (/\ req[r].pc = "done"
         /\ HasProjectId(req[r].op)
         /\ req[r].pid = InvalidId
         /\ req[r].user # "none"
         /\ SysRole(req[r].user) = "admin")
        => req[r].status = 400

----------------------------------------------------------------------------
(* The project-role guard as a function of the request context *)

\* Routes whose chain ends with verifyProjectRole.
RoleGuardedOps == {op \in AllOps : Chain(op)[Len(Chain(op))].g = "verifyProjectRole"}

\* The membership a request context may carry when the guard runs: none
\* (the guard was mounted without verifyProjectMembership), one whose role is
\* unset (the empty string), or one with a role.
GuardMemberships(user) ==
    {NoDoc} \cup
    {[id |-> SeedId + 3, project |-> SeedId + 1, user |-> user, role |-> role,
      joinedAt |-> SeedId, addedBy |-> "u1", ver |-> 0] : role \in {""} \cup validRoles}

\* One request stands at the role guard of its route, with any context.
GuardInit ==
    /\ projects = SeedProjects
    /\ members = {SeedOwner}
    /\ tasks = SeedTasks
    /\ subtasks = SeedSubtasks
    /\ notes = SeedNotes
    /\ nextId = 1
    /\ \E op \in RoleGuardedOps, user \in Users :
       \E mem \in GuardMemberships(user) :
          req = [r \in Reqs |->
                   IF r = "r1"
                   THEN [IdleReq EXCEPT !.pc = "guard", !.op = op, !.token = user,
                                        !.user = user, !.pid = SeedId + 1,
                                        !.gi = Len(Chain(op)), !.mem = mem]
                   ELSE IdleReq]

GuardNext == verifyProjectRole("r1")

GuardSpec == GuardInit /\ [][GuardNext]_vars

\* C11: the guard returned by verifyProjectRole(allowed) answers 500 when no
\* membership is attached to the request context, 403 when the attached
\* membership's role is unset or not in allowed, and passes control forward
\* (to the handler, with no response sent) exactly when the role is in
\* allowed; it changes no collection.
C11_RoleGuardOutcome ==
    [][\A r \in Reqs :
          (/\ req[r].pc = "guard"
           /\ Chain(req[r].op)[req[r].gi].g = "verifyProjectRole"
           /\ req'[r] # req[r]) =>
             LET allowed == Chain(req[r].op)[req[r].gi].allowed
                 passed == req'[r].pc = req[r].op /\ req'[r].status = 0
                 failed(code) == req'[r].pc = "done" /\ req'[r].status = code IN
             /\ db' = db
             /\ req[r].mem = NoDoc => failed(500)
             /\ (req[r].mem # NoDoc /\ req[r].mem.role \notin allowed) => failed(403)
             /\ passed <=> (req[r].mem # NoDoc /\ req[r].mem.role \in allowed)
      ]_vars

\* The guard ran with no membership attached and answered 500.
C11_PreconditionFailed ==
    \E r \in Reqs :
        /\ req[r].pc = "done"
        /\ req[r].op \in RoleGuardedOps
        /\ req[r].mem = NoDoc
        /\ req[r].user # "none"
        /\ req[r].status = 500

----------------------------------------------------------------------------
(* The membership guard *)

\* Routes whose chain contains verifyProjectMembership.
MembershipGuardedOps ==
    {op \in AllOps : \E i \in 1..Len(Chain(op)) : Chain(op)[i].g = "verifyProjectMembership"}

\* C12: verifyProjectMembership reports the first failure of a fixed order:
\* a malformed project id gives 400, else an absent Project gives 404, else a
\* missing ProjectMember record of (project, principal) gives 403; only when
\* all three checks pass does it pass control forward, and the membership it
\* attaches is the stored record of exactly that (project, principal) pair.
C12_MembershipGuardOrder ==
    [][\A r \in Reqs :
          LET rq == req[r]
              failed(code) == /\ req'[r].pc = "done"
                              /\ req'[r].status = code
                              /\ req'[r].mem = NoDoc
              record == {m \in members : m.project = rq.pid /\ m.user = rq.user} IN
          /\ (/\ rq.pc = "guard"
              /\ Chain(rq.op)[rq.gi].g = "verifyProjectMembership"
              /\ rq.user # "none"
              /\ req'[r] # rq) =>
                 IF rq.pid = InvalidId THEN failed(400)
                 ELSE IF \A p \in projects : p.id # rq.pid THEN failed(404)
                 ELSE req'[r].pc = "membershipFind" /\ req'[r].mem = NoDoc
          /\ (rq.pc = "membershipFind" /\ req'[r] # rq) =>
                 IF record = {} THEN failed(403)
                 ELSE /\ req'[r].mem \in record
                      /\ req'[r].status = 0
                      /\ req'[r].pc = IF rq.gi < Len(Chain(rq.op)) THEN "guard" ELSE rq.op
                      /\ req'[r].gi = rq.gi + 1
      ]_vars

\* A principal without a membership asked for an existing project and was
\* answered 403 by the third check.
C12_NonMemberForbidden ==
    \E r \in Reqs :
        /\ req[r].pc = "done"
        /\ req[r].op \in MembershipGuardedOps
        /\ req[r].status = 403
        /\ req[r].mem = NoDoc
        /\ req[r].user \in Users
        /\ \E p \in projects : p.id = req[r].pid
        /\ \A m \in members : ~(m.project = req[r].pid /\ m.user = req[r].user)

----------------------------------------------------------------------------
(* retryOperation as a process: attempts, waits and the error raised *)

\* The errors an attempt may throw: each of the four retryable kinds alone,
\* a write conflict as the server sends it, and errors of no retryable kind.
RetryErrors ==
    {VersionError, DuplicateKey, TransientError, WriteConflict,
     [WriteConflict EXCEPT !.label = "none"],
     StorageError, ApiError(404)}

\* Math.random() * 100, in whole milliseconds.
Jitters == {0, 99}

\* The options a call is made with: the defaults, a low cap, and an
\* initial delay above the cap.
RetryOptions ==
    {[initialDelay |-> initialDelay, maxDelay |-> maxDelay],
     [initialDelay |-> initialDelay, maxDelay |-> 3 * initialDelay],
     [initialDelay |-> maxDelay + initialDelay, maxDelay |-> maxDelay]}

Min(a, b) == IF a < b THEN a ELSE b

\* The call: let delay = initialDelay, attempt = 0.
retryOperation(r) ==
    /\ req[r].pc = "idle"
    /\ \E options \in RetryOptions :
          req' = [req EXCEPT ![r] =
                    [IdleReq EXCEPT !.pc = "operation", !.op = "retryOperation"] @@
                    [options |-> options, delay |-> options.initialDelay,
                     calls |-> 0, thrown |-> << >>, waits |-> << >>]]
    /\ UNCHANGED <<db, nextId>>

\* return await operation()
operationReturns(r) ==
    /\ req[r].pc = "operation"
    /\ req' = [req EXCEPT ![r] = Respond([@ EXCEPT !.calls = @ + 1], 200)]
    /\ UNCHANGED <<db, nextId>>

\* operation() throws: the catch block rethrows or goes on to wait.
operationThrows(r) ==
    /\ req[r].pc = "operation"
    /\ \E error \in RetryErrors :
          req' = [req EXCEPT ![r] =
                    Caught([@ EXCEPT !.calls = @ + 1,
                                     !.thrown = Append(@, error)],
                           error, "backoff")]
    /\ UNCHANGED <<db, nextId>>

\* setTimeout(resolve, delay); delay = Math.min(delay * 2 + jitter, maxDelay)
backoff(r) ==
    /\ req[r].pc = "backoff"
    /\ \E jitter \in Jitters :
          req' = [req EXCEPT ![r] =
                    [@ EXCEPT !.waits = Append(@, req[r].delay),
                              !.delay = Min(req[r].delay * 2 + jitter,
                                            req[r].options.maxDelay),
                              !.pc = "operation"]]
    /\ UNCHANGED <<db, nextId>>

RetryNext ==
    \/ retryOperation("r1")
    \/ operationReturns("r1")
    \/ operationThrows("r1")
    \/ backoff("r1")

RetrySpec == Init /\ [][RetryNext]_vars

\* The scheduler runs every continuation that is ready.
RetryFairSpec == RetrySpec /\ WF_vars(RetryNext)

RetryCalls == {r \in Reqs : req[r].op = "retryOperation"}

\* C13: with the default classifier an attempt's error is retried only if it
\* is a VersionError, has code 11000 or 112, or carries the
\* TransientTransactionError label; any other error is raised at once, with
\* no wait and no further attempt, so that an operation whose first attempt
\* throws such an error was invoked exactly once.
C13_RetriesOnlyRetryable ==
    [][\A r \in Reqs :
          (req[r].pc = "operation" /\ req'[r].calls = req[r].calls + 1
           /\ Len(req'[r].thrown) = Len(req[r].thrown) + 1) =>
             LET e == req'[r].thrown[Len(req'[r].thrown)]
                 retryable == \/ e.name = "VersionError"
                              \/ e.code \in {11000, 112}
                              \/ e.label = "TransientTransactionError" IN
             /\ req'[r].pc = "backoff" => retryable
             /\ ~retryable =>
                   /\ req'[r].pc = "done"
                   /\ req'[r].err = e
                   /\ req'[r].waits = req[r].waits
                   /\ req[r].calls = 0 => req'[r].calls = 1
             /\ (retryable /\ req[r].calls < maxRetries) => req'[r].pc = "backoff"
      ]_vars

\* The first attempt threw an error of no retryable kind: one invocation, no
\* wait, that error raised.
C13_RaisedAtOnce ==
    \E r \in RetryCalls :
        /\ req[r].pc = "done"
        /\ req[r].calls = 1
        /\ req[r].waits = << >>
        /\ req[r].err = StorageError
        /\ req[r].thrown = <<StorageError>>

\* C14: retryOperation invokes the operation at most maxRetries + 1 times
\* and every call ends, returning or raising, even when every attempt fails
\* with a retryable error.
C14_BoundedAttempts ==
    /\ [](\A r \in RetryCalls : req[r].calls <= maxRetries + 1)
    /\ \A r \in Reqs : (req[r].pc \in {"operation", "backoff"}) ~> (req[r].pc = "done")

\* Every attempt failed with a retryable error and the call ended after
\* maxRetries + 1 invocations.
C14_AllAttemptsUsed ==
    \E r \in RetryCalls :
        /\ req[r].pc = "done"
        /\ req[r].calls = maxRetries + 1
        /\ Len(req[r].thrown) = maxRetries + 1
        /\ \A i \in 1..Len(req[r].thrown) : shouldRetry(req[r].thrown[i])

\* C15: when every attempt fails with a retryable error, the error raised
\* to the caller is the one the last attempt threw, unchanged.
C15_LastErrorRaised ==
    \A r \in RetryCalls :
        (/\ req[r].pc = "done"
         /\ req[r].calls = maxRetries + 1
         /\ Len(req[r].thrown) = maxRetries + 1) =>
            /\ req[r].err = req[r].thrown[maxRetries + 1]
            /\ req[r].status = ErrorStatus(req[r].thrown[maxRetries + 1])

\* Four attempts failed with retryable errors, the last with another error
\* than each earlier one; the last one's error was raised.
C15_LastDiffersFromEarlier ==
    \E r \in RetryCalls :
        /\ req[r].pc = "done"
        /\ Len(req[r].thrown) = maxRetries + 1
        /\ req[r].err = DuplicateKey
        /\ \A i \in 1..maxRetries : req[r].thrown[i] = VersionError

\* C16: for all configured initialDelay and maxDelay the waits follow the
\* backoff policy: the first wait is initialDelay, each later wait is the
\* previous wait doubled plus a jitter of 0 to 100 ms, cut to maxDelay, and
\* no wait exceeds maxDelay.
C16_BackoffPolicy ==
    \A r \in RetryCalls :
        LET waits == req[r].waits IN
        \A i \in 1..Len(waits) :
            /\ i = 1 => waits[i] = req[r].options.initialDelay
            /\ i > 1 => \E jitter \in 0..100 :
                           waits[i] = Min(waits[i - 1] * 2 + jitter,
                                          req[r].options.maxDelay)
            /\ waits[i] <= req[r].options.maxDelay

----------------------------------------------------------------------------
(* retryWithOptimisticLocking *)

\* C17: a call of retryWithOptimisticLocking (here the one made by
\* updateProjectMemberRole) that returns has persisted the mutation exactly
\* once: every attempt fetches the stored document anew and changes nothing
\* by fetching, a failed save leaves the collection unchanged and drops the
\* copy it held, and the one save that succeeds ends the call, writing the
\* mutation to the document as it is stored and incrementing its version
\* once when the mutation changed it.
C17_PersistedOnce ==
    [][\A r \in Reqs :
          LET rq == req[r]
              stored == {m \in members : m.project = rq.pid /\ m.user = rq.uid} IN
          /\ (rq.pc = "roleFind" /\ req'[r] # rq) =>
                /\ db' = db
                /\ IF stored = {}
                   THEN req'[r].pc = "done" /\ req'[r].status = 404
                   ELSE req'[r].pc = "roleSave" /\ req'[r].doc \in stored
          /\ (rq.pc = "roleSave" /\ req'[r] # rq) =>
                IF req'[r].pc = "done" /\ req'[r].status = 200
                THEN /\ rq.doc \in members
                     /\ members' = (members \ {rq.doc}) \cup
                           {[rq.doc EXCEPT
                               !.role = rq.body.role,
                               !.ver = IF rq.doc.role = rq.body.role
                                       THEN @ ELSE @ + 1]}
                     /\ <<projects, tasks, subtasks, notes>>' =
                           <<projects, tasks, subtasks, notes>>
                ELSE /\ db' = db
                     /\ rq.doc \notin members
                     /\ req'[r].doc = NoDoc
                     /\ \/ req'[r].pc = "roleFind"
                        \/ req'[r].pc = "done" /\ req'[r].status = 500
      ]_vars

\* Two calls on one membership with different roles have both returned and
\* the stored version counts exactly their two writes.
C17_TwoCallsTwoWrites ==
    \E r1 \in Reqs : \E r2 \in Reqs \ {r1} :
        /\ RoleUpdateDone(r1) /\ RoleUpdateDone(r2)
        /\ req[r1].pid = req[r2].pid /\ req[r1].uid = req[r2].uid
        /\ req[r1].body.role # req[r2].body.role
        /\ \E m \in members :
              /\ m.project = req[r1].pid /\ m.user = req[r1].uid
              /\ m.ver = 2

----------------------------------------------------------------------------
(* Concurrent requests on one task and its subtasks *)

TaskBodies(op) ==
    CASE op = "updateTask" ->
            {[EmptyBody EXCEPT !.title = "t1"], [EmptyBody EXCEPT !.title = "t2"],
             [EmptyBody EXCEPT !.status = "done"]}
      [] op = "updateSubtask" ->
            {[EmptyBody EXCEPT !.title = "t1"], [EmptyBody EXCEPT !.title = "t2"],
             [EmptyBody EXCEPT !.isCompleted = "true"]}
      [] op = "createSubtask" -> {[EmptyBody EXCEPT !.title = "t1"]}
      [] OTHER -> {EmptyBody}

TaskInputs(ops) ==
    [ops     |-> ops,
     tokens  |-> {"u1"},
     pids    |-> [op \in AllOps |-> ExistingProjectIds],
     uids    |-> [op \in AllOps |-> {"none"}],
     dids    |-> [op \in AllOps |->
                    IF op = "updateSubtask" THEN {x.id : x \in SeedSubtasks}
                    ELSE {t.id : t \in SeedTasks}],
     bodies  |-> [op \in AllOps |-> TaskBodies(op)]]

\* Two requests, one per slot, on the seeded task and its subtask.
TaskNext ==
    \/ Start("r1", TaskInputs({"updateTask", "updateSubtask", "deleteTask"}))
    \/ Start("r2", TaskInputs({"updateTask", "updateSubtask", "createSubtask"}))
    \/ \E r \in Reqs :
        \/ verifyJWT(r)
        \/ verifyProjectMembership(r)
        \/ verifyProjectMembershipFind(r)
        \/ verifyProjectRole(r)
        \/ updateTask(r)
        \/ taskSave(r)
        \/ deleteTask(r)
        \/ taskDeleteSubtasks(r)
        \/ taskDelete(r)
        \/ taskStorageFails(r)
        \/ createSubtask(r)
        \/ subtaskCreate(r)
        \/ updateSubtask(r)
        \/ subtaskSave(r)

TaskSpec == TxInit /\ [][TaskNext]_vars

\* C18: every document of the shared aggregates is under optimistic
\* versioning, so that a save computed from a stale read is rejected: a
\* task.save() or subtask.save() that changes the stored document is made
\* against the document exactly as the request fetched it.
C18_StaleSaveRejected ==
    [][\A r \in Reqs :
          /\ (req[r].pc = "taskSave" /\ tasks' # tasks) => req[r].doc \in tasks
          /\ (req[r].pc = "subtaskSave" /\ subtasks' # subtasks) =>
                req[r].doc \in subtasks
      ]_vars

\* C19: once deleteTask has answered 200 no Subtask references the deleted
\* task, in every interleaving with createSubtask; and a deleteTask that
\* failed has not left the Task without the Subtasks it had.
C19_TaskCascade ==
    \A r \in Reqs :
        (req[r].pc = "done" /\ req[r].op = "deleteTask") =>
           /\ req[r].status = 200 =>
                 \A x \in subtasks : x.task # req[r].did
           /\ (req[r].status = 500 /\ \E t \in tasks : t.id = req[r].did) =>
                 \A x \in SeedSubtasks :
                    x.task = req[r].did => \E y \in subtasks : y.id = x.id

----------------------------------------------------------------------------
(* removeProjectMember *)

\* C20: removeProjectMember deletes only the ProjectMember record of the
\* (project, user) pair: every Task, Subtask and Note (with their createdBy
\* and assignee references to the removed user), every other membership and
\* the Project stay as they are; when the pair has no membership it answers
\* 404 and changes nothing.
C20_RemoveFrame ==
    [][\A r \in Reqs :
          LET rq == req[r]
              pair == {m \in members : m.project = rq.pid /\ m.user = rq.uid} IN
          /\ (rq.pc = "removeProjectMember" /\ req'[r] # rq) =>
                /\ db' = db
                /\ IF pair = {}
                   THEN req'[r].pc = "done" /\ req'[r].status = 404
                   ELSE req'[r].pc = "removeDelete" /\ req'[r].doc \in pair
          /\ (rq.pc = "removeDelete" /\ req'[r] # rq) =>
                /\ rq.doc.project = rq.pid /\ rq.doc.user = rq.uid
                /\ members' = members \ {rq.doc}
                /\ <<projects, tasks, subtasks, notes>>' =
                      <<projects, tasks, subtasks, notes>>
                /\ req'[r].pc = "done" /\ req'[r].status = 200
      ]_vars

\* A member was removed while a task is assigned to them and a subtask was
\* created by them: both still name the removed user, and the owner's
\* membership is still there.
C20_RemovedMemberStillReferenced ==
    \E r \in Reqs :
        /\ req[r].pc = "done"
        /\ req[r].op = "removeProjectMember"
        /\ req[r].status = 200
        /\ \A m \in members : ~(m.project = req[r].pid /\ m.user = req[r].uid)
        /\ \E t \in tasks : t.project = req[r].pid /\ t.assignee = req[r].uid
        /\ \E x \in subtasks : x.createdBy = req[r].uid
        /\ SeedOwner \in members

----------------------------------------------------------------------------
(* updateProjectMemberRole and addProjectMember as contracts *)

\* C21: a successful updateProjectMemberRole changes only the role (and the
\* version key) of the targeted membership, leaving its project, user,
\* joinedAt and addedBy and every other membership as they were; a missing
\* or unrecognized role is answered 400 and a missing membership 404, both
\* without a write.
C21_RoleUpdateFrame ==
    [][\A r \in Reqs :
          LET rq == req[r]
              target == {m \in members : m.project = rq.pid /\ m.user = rq.uid} IN
          /\ (rq.pc = "updateProjectMemberRole" /\ req'[r] # rq) =>
                /\ db' = db
                /\ IF rq.body.role \notin {"admin", "project_admin", "member"}
                   THEN req'[r].pc = "done" /\ req'[r].status = 400
                   ELSE req'[r].pc # "done"
          /\ (rq.pc = "roleFind" /\ req'[r] # rq) =>
                /\ db' = db
                /\ target = {} => (req'[r].pc = "done" /\ req'[r].status = 404)
          /\ (rq.pc = "roleSave" /\ req'[r] # rq /\ req'[r].status = 200) =>
                /\ \A m \in members \ target : m \in members'
                /\ \A m \in members' \ members :
                      \E old \in target :
                          /\ m.id = old.id
                          /\ m.project = old.project /\ m.user = old.user
                          /\ m.joinedAt = old.joinedAt /\ m.addedBy = old.addedBy
                          /\ m.role = rq.body.role
                /\ Cardinality(members') = Cardinality(members)
                /\ <<projects, tasks, subtasks, notes>>' =
                      <<projects, tasks, subtasks, notes>>
      ]_vars

\* A role update of a member the owner added has answered 200: the record
\* carries the new role, written once, with its join stamp and addedBy.
C21_RoleChangedRestKept ==
    \E r \in Reqs :
        /\ req[r].pc = "done" /\ req[r].op = "updateProjectMemberRole"
        /\ req[r].status = 200
        /\ req[r].user # req[r].uid
        /\ \E m \in members :
              /\ m.project = req[r].pid /\ m.user = req[r].uid
              /\ m.role = req[r].body.role
              /\ m.ver = 1
              /\ m.joinedAt = SeedId /\ m.addedBy = "u1"
        /\ SeedOwner \in members

AddPcs == {"addProjectMember", "addFindUser", "addFindMember", "addCreate"}

\* C22: addProjectMember answers 400 when email or role is missing or the
\* role is unrecognized, 404 when the project (named by a well-formed id) or
\* the user with that email does not exist; no failing request creates a
\* ProjectMember record; a successful one creates exactly one, for the user
\* with that email, with the requested role and addedBy the requester.
C22_AddMemberContract ==
    [][\A r \in Reqs :
          LET rq == req[r]
              failed(code) == req'[r].pc = "done" /\ req'[r].status = code IN
          (rq.pc \in AddPcs /\ req'[r] # rq) =>
             /\ rq.pc = "addProjectMember" =>
                   IF \/ rq.body.email = "undefined" \/ rq.body.role = "undefined"
                      \/ rq.body.role \notin {"admin", "project_admin", "member"}
                   THEN failed(400)
                   ELSE (rq.pid # InvalidId /\ \A p \in projects : p.id # rq.pid)
                           => failed(404)
             /\ (rq.pc = "addFindUser" /\ rq.body.email \notin Users) => failed(404)
             /\ IF req'[r].pc = "done" /\ req'[r].status = 201
                THEN /\ rq.pc = "addCreate"
                     /\ \E m \in members' \ members :
                           /\ members' = members \cup {m}
                           /\ m.project = rq.pid /\ m.user = rq.body.email
                           /\ m.role = rq.body.role /\ m.addedBy = rq.user
                     /\ <<projects, tasks, subtasks, notes>>' =
                           <<projects, tasks, subtasks, notes>>
                ELSE db' = db
      ]_vars

\* A system admin added a third user to the project as member.
C22_MemberAdded ==
    \E r \in Reqs :
        /\ req[r].pc = "done" /\ req[r].op = "addProjectMember"
        /\ req[r].status = 201
        /\ Cardinality(members) = 3
        /\ \E m \in members :
              /\ m.project = req[r].pid /\ m.user = "u3"
              /\ m.role = "member" /\ m.addedBy = req[r].user
              /\ m.addedBy # m.user

----------------------------------------------------------------------------
(* The global error handler as a function of the error and the environment *)

\* process.env.NODE_ENV; "undefined" is the unset variable.
Environments == {"development", "production", "test", "staging", "undefined"}

\* The errors that reach the handler: ApiErrors of each status the
\* application throws and errors that carry no statusCode.
HandledErrors ==
    {ApiError(code) : code \in {400, 401, 403, 404, 409, 500}} \cup
    {VersionError, DuplicateKey, WriteConflict, StorageError, CastError,
     DocumentNotFound, TypeError}

NoEnvelope == [success |-> "undefined", message |-> "undefined",
               errors |-> "undefined", stack |-> "undefined"]

\* errorResponse: message and errors with their defaults, and the stack when
\* NODE_ENV is not 'production' and the error has one.
ErrorResponse(message, errors, stack, env) ==
    [success |-> FALSE,
     message |-> IF message \in {"undefined", ""} THEN "Internal Server Error"
                 ELSE message,
     errors  |-> IF errors = "undefined" THEN << >> ELSE errors,
     stack   |-> IF env # "production" /\ stack # "undefined" THEN stack
                 ELSE "undefined"]

\* An error has been passed to next(err) in a process started with some
\* NODE_ENV.
EnvelopeInit ==
    /\ projects = {} /\ members = {} /\ tasks = {} /\ subtasks = {} /\ notes = {}
    /\ nextId = 1
    /\ \E err \in HandledErrors, env \in Environments :
       \E message \in {"undefined", "m"}, stack \in {"undefined", "trace"} :
          req = [r \in Reqs |->
                   IF r = "r1"
                   THEN [IdleReq EXCEPT !.pc = "errorHandler", !.err = err] @@
                        [env |-> env, message |-> message, errors |-> "undefined",
                         stack |-> stack, envelope |-> NoEnvelope]
                   ELSE IdleReq]

\* app.use((err, req, res, next) => ...)
errorHandler(r) ==
    /\ req[r].pc = "errorHandler"
    /\ LET rq == req[r] IN
       req' = [req EXCEPT ![r] =
                 [Throw(rq, rq.err) EXCEPT
                     !.envelope = ErrorResponse(rq.message, rq.errors,
                                                rq.stack, rq.env)]]
    /\ UNCHANGED <<db, nextId>>

EnvelopeNext == errorHandler("r1")

EnvelopeSpec == EnvelopeInit /\ [][EnvelopeNext]_vars

\* C23: every failed request yields {success: false, message, errors} with
\* the error's status code, 500 when it carries none, and the envelope has a
\* stack only when the process runs in development.
C23_ErrorEnvelope ==
    \A r \in Reqs :
        (req[r].pc = "done" /\ req[r].err # NoError) =>
           /\ req[r].envelope.success = FALSE
           /\ req[r].envelope.message # "undefined"
           /\ req[r].envelope.errors # "undefined"
           /\ req[r].status = IF req[r].err.statusCode # 0
                              THEN req[r].err.statusCode ELSE 500
           /\ req[r].envelope.stack # "undefined" => req[r].env = "development"

----------------------------------------------------------------------------
(* Concurrent updateProject requests *)

ProjectUpdateInputs(bodies) ==
    [ops     |-> {"updateProject"},
     tokens  |-> {"u1"},
     pids    |-> [op \in AllOps |-> ExistingProjectIds],
     uids    |-> [op \in AllOps |-> {"none"}],
     dids    |-> [op \in AllOps |-> {0}],
     bodies  |-> [op \in AllOps |-> bodies]]

\* Slot r1 renames the project, slot r2 sets its description or renames it.
ProjectNext ==
    \/ Start("r1", ProjectUpdateInputs({[EmptyBody EXCEPT !.name = "n1"],
                                        [EmptyBody EXCEPT !.name = " t2 "]}))
    \/ Start("r2", ProjectUpdateInputs({[EmptyBody EXCEPT !.description = "d1"],
                                        [EmptyBody EXCEPT !.name = "n2"]}))
    \/ \E r \in Reqs :
        \/ verifyJWT(r)
        \/ verifyProjectMembership(r)
        \/ verifyProjectMembershipFind(r)
        \/ verifyProjectRole(r)
        \/ updateProject(r)
        \/ projectSave(r)

ProjectSpec == TxInit /\ [][ProjectNext]_vars

ProjectUpdateDone(r) ==
    /\ req[r].pc = "done"
    /\ req[r].op = "updateProject"
    /\ req[r].status = 200

\* C24: two concurrent updateProject requests on one project lose no update:
\* a save succeeds only against the stored document exactly as its attempt
\* fetched it, a version conflict sends the request back to fetch again, and
\* when one request set only name and the other only description the stored
\* project has both new values once both have answered 200.
C24_NoLostUpdate ==
    /\ [](\A r1 \in Reqs : \A r2 \in Reqs \ {r1} :
            (/\ ProjectUpdateDone(r1) /\ ProjectUpdateDone(r2)
             /\ req[r1].pid = req[r2].pid
             /\ req[r1].body.name # "undefined"
             /\ req[r1].body.description = "undefined"
             /\ req[r2].body.name = "undefined"
             /\ req[r2].body.description # "undefined")
            => \E p \in projects :
                  /\ p.id = req[r1].pid
                  /\ p.name = Trim(req[r1].body.name)
                  /\ p.description = Trim(req[r2].body.description))
    /\ [][\A r \in Reqs :
            (req[r].pc = "projectSave" /\ req'[r] # req[r]) =>
               IF req'[r].pc = "done" /\ req'[r].status = 200
               THEN req[r].doc \in projects
               ELSE /\ projects' = projects
                    /\ req[r].doc \notin projects
                    /\ req'[r].pc = "updateProject"
                    /\ req'[r].attempt = req[r].attempt + 1
                    /\ req'[r].doc = NoDoc
         ]_vars

\* The request that set the description lost the race, fetched again and is
\* about to save on top of the name the other request persisted.
C24_LoserHoldsWinnersName ==
    \E r1 \in Reqs : \E r2 \in Reqs \ {r1} :
        /\ ProjectUpdateDone(r1)
        /\ req[r1].body.name = "n1"
        /\ req[r2].pc = "projectSave"
        /\ req[r2].attempt = 1
        /\ req[r2].body.description = "d1"
        /\ req[r2].doc.name = "n1"
        /\ req[r2].doc \in projects

----------------------------------------------------------------------------
(* The session of a transaction attempt: try, catch, finally *)

\* The storage calls between startTransaction and commitTransaction.
SessionCalls(op) == IF op = "createProject" THEN 2 ELSE 6

\* abortTransaction after a failed commitTransaction is refused by the driver.
TransactionError == [name |-> "MongoTransactionError", code |-> 0,
                     label |-> "none", statusCode |-> 0]

\* The request has passed validation and calls retryOperation.
sessionRequest(r) ==
    /\ req[r].pc = "idle"
    /\ \E op \in {"createProject", "deleteProject"} :
          req' = [req EXCEPT ![r] =
                    [IdleReq EXCEPT !.pc = "startSession", !.op = op, !.user = "u1"] @@
                    [log |-> << >>, left |-> 0, pending |-> NoError]]
    /\ UNCHANGED <<db, nextId>>

\* mongoose.startSession(); session.startTransaction(): outside the try
\* block, so a failure here reaches retryOperation with no session begun.
sessionStart(r) ==
    /\ req[r].pc = "startSession"
    /\ \/ req' = [req EXCEPT ![r] =
                    [@ EXCEPT !.pc = "try", !.log = Append(@, "start"),
                              !.left = SessionCalls(req[r].op)]]
       \/ \E error \in SessionErrors :
             req' = [req EXCEPT ![r] = Caught(@, error, "startSession")]
    /\ UNCHANGED <<db, nextId>>

\* One storage call of the try block returns or throws.
sessionCall(r) ==
    /\ req[r].pc = "try"
    /\ req[r].left > 0
    /\ \/ req' = [req EXCEPT ![r].left = @ - 1]
       \/ \E error \in SessionErrors :
             req' = [req EXCEPT ![r] = [@ EXCEPT !.pc = "catch", !.pending = error]]
    /\ UNCHANGED <<db, nextId>>

\* session.commitTransaction() returns or throws.
sessionCommit(r) ==
    /\ req[r].pc = "try"
    /\ req[r].left = 0
    /\ \/ req' = [req EXCEPT ![r] =
                    [@ EXCEPT !.pc = "finally", !.log = Append(@, "commit")]]
       \/ \E error \in SessionErrors :
             req' = [req EXCEPT ![r] =
                       [@ EXCEPT !.pc = "catch", !.pending = error,
                                 !.log = Append(@, "commitFailed")]]
    /\ UNCHANGED <<db, nextId>>

\* A catch block that rethrows at once when abortTransaction throws, with
\* the session end placed after it instead of in a finally block.
sessionCatchNoFinally(r) ==
    /\ req[r].pc = "catch"
    /\ \/ req' = [req EXCEPT ![r] =
                    [@ EXCEPT !.pc = "finally", !.log = Append(@, "abort")]]
       \/ \E error \in SessionErrors \cup {TransactionError} :
             req' = [req EXCEPT ![r] =
                       Caught([@ EXCEPT !.log = Append(@, "abort"),
                                        !.pending = NoError],
                              error, "startSession")]
    /\ UNCHANGED <<db, nextId>>

\* catch (error) { await session.abortTransaction(); throw error; }: when
\* abortTransaction throws, its error replaces the caught one.
sessionCatch(r) ==
    /\ req[r].pc = "catch"
    /\ \/ req' = [req EXCEPT ![r] =
                    [@ EXCEPT !.pc = "finally", !.log = Append(@, "abort")]]
       \/ \E error \in SessionErrors \cup {TransactionError} :
             req' = [req EXCEPT ![r] =
                       [@ EXCEPT !.pc = "finally", !.log = Append(@, "abort"),
                                 !.pending = error]]
    /\ UNCHANGED <<db, nextId>>

\* finally { session.endSession(); }, then the return value or the pending
\* error leaves the operation: to the caller or to retryOperation's catch.
sessionFinally(r) ==
    /\ req[r].pc = "finally"
    /\ LET rq == [req[r] EXCEPT !.log = Append(@, "end"), !.pending = NoError] IN
       req' = [req EXCEPT ![r] =
                 IF req[r].pending = NoError
                 THEN Respond(rq, IF rq.op = "createProject" THEN 201 ELSE 200)
                 ELSE Caught(rq, req[r].pending, "startSession")]
    /\ UNCHANGED <<db, nextId>>

SessionNext ==
    \/ sessionRequest("r1")
    \/ sessionStart("r1")
    \/ sessionCall("r1")
    \/ sessionCommit("r1")
    \/ sessionCatch("r1")
    \/ sessionFinally("r1")

SessionSpec == Init /\ [][SessionNext]_vars

\* The requests that run a transaction attempt.
SessionRuns == {r \in Reqs : "log" \in DOMAIN req[r]}

Count(log, event) == Cardinality({i \in 1..Len(log) : log[i] = event})

\* C25: every transaction attempt that is begun is ended exactly once and in
\* order: after a commit comes endSession and the result; after a failure
\* abortTransaction is called, then endSession, and only then does the error
\* leave the attempt; a retried attempt starts a new session after the
\* previous one was ended; no session is open when the request finishes.
C25_SessionLifecycle ==
    \A r \in SessionRuns :
        LET log == req[r].log
            open == Count(log, "start") - Count(log, "end") IN
        /\ open = IF req[r].pc \in {"try", "catch", "finally"} THEN 1 ELSE 0
        /\ Count(log, "start") <= maxRetries + 1
        /\ \A i \in 1..Len(log) :
              /\ log[i] = "start" => (i = 1 \/ log[i - 1] = "end")
              /\ log[i] = "end" => (i > 1 /\ log[i - 1] \in {"commit", "abort"})
              /\ log[i] = "abort" => (i > 1 /\ log[i - 1] \in {"start", "commitFailed"})
              /\ log[i] \in {"commit", "commitFailed"} => (i > 1 /\ log[i - 1] = "start")
              /\ log[i] = "commit" => i >= Len(log) - 1
        /\ req[r].pc = "done" =>
              /\ req[r].pending = NoError
              /\ req[r].status \in {200, 201} =>
                    (Len(log) >= 3 /\ log[Len(log) - 1] = "commit"
                                   /\ log[Len(log)] = "end")
              /\ req[r].status \notin {200, 201} =>
                    (log = << >> \/ (log[Len(log) - 1] = "abort"
                                     /\ log[Len(log)] = "end"))
        /\ req[r].pc = "startSession" =>
              (log = << >> \/ log[Len(log)] = "end")

\* A first attempt failed in its commit and was aborted and ended, a second
\* attempt in a new session committed, and the request has been answered.
C25_RetriedThenCommitted ==
    \E r \in SessionRuns :
        /\ req[r].pc = "done"
        /\ req[r].status = 201
        /\ req[r].log = <<"start", "commitFailed", "abort", "end",
                          "start", "commit", "end">>

----------------------------------------------------------------------------
(* Guard order on the declared routes *)

GuardPcs == {"idle", "guard", "membershipFind", "done"}

Guards(op) == {DeclaredChain(op)[i].g : i \in 1..Len(DeclaredChain(op))}

\* C26: on every declared route verifyJWT is the first guard and every
\* verifyProjectRole guard has verifyProjectMembership before it; a handler
\* runs only after every guard of its chain has passed, in declared order,
\* so the role guard always finds a membership attached (its 500 outcome is
\* unreachable through the routes), and every handler that reads
\* req.projectMembership is on a route that mounts verifyProjectMembership.
C26_GuardOrder ==
    /\ [](/\ \A op \in DeclaredOps :
               LET chain == DeclaredChain(op) IN
               /\ chain[1].g = "verifyJWT"
               /\ \A i \in 1..Len(chain) :
                     chain[i].g = "verifyProjectRole" =>
                        \E j \in 1..(i - 1) : chain[j].g = "verifyProjectMembership"
          /\ \A op \in ReadsMembership : "verifyProjectMembership" \in Guards(op)
          /\ \A r \in Reqs :
               LET rq == req[r] IN
               /\ (rq.pc = "guard" /\ Chain(rq.op)[rq.gi].g = "verifyProjectRole")
                     => rq.mem # NoDoc
               /\ (rq.pc = "done" /\ rq.status = 500) =>
                     ~(rq.gi <= Len(Chain(rq.op))
                       /\ Chain(rq.op)[rq.gi].g = "verifyProjectRole")
               /\ rq.pc \notin GuardPcs =>
                     /\ rq.gi = Len(Chain(rq.op)) + 1
                     /\ rq.user \in Users
                     /\ "verifyProjectMembership" \in Guards(rq.op) =>
                           (rq.mem # NoDoc /\ rq.mem.project = rq.pid
                                           /\ rq.mem.user = rq.user)
                     /\ \A i \in 1..Len(Chain(rq.op)) :
                           /\ Chain(rq.op)[i].g = "verifyProjectRole" =>
                                 rq.mem.role \in Chain(rq.op)[i].allowed
                           /\ Chain(rq.op)[i].g = "verifyRoles" =>
                                 SysRole(rq.user) \in Chain(rq.op)[i].allowed)
    /\ [][\A r \in Reqs :
            (req[r].pc \in {"guard", "membershipFind"} /\ req'[r] # req[r]) =>
               \/ req'[r].pc = "done" /\ req'[r].gi = req[r].gi
               \/ req'[r].pc = "membershipFind" /\ req'[r].gi = req[r].gi
               \/ req'[r].pc \in {"guard", req[r].op} /\ req'[r].gi = req[r].gi + 1
         ]_vars

\* A project admin's deleteTask request has passed its three guards and its
\* handler is running.
C26_HandlerAfterThreeGuards ==
    \E r \in Reqs :
        /\ req[r].op = "deleteTask"
        /\ req[r].pc = "taskDeleteSubtasks"
        /\ req[r].gi = 4
        /\ req[r].mem.role = "project_admin"

----------------------------------------------------------------------------
(* Authorization and concurrent demotion or removal *)

\* The project has two admins, u1 (the owner) and u2.
AuthzInit ==
    /\ projects = SeedProjects
    /\ members = {SeedOwner, SeedMember("admin")}
    /\ tasks = SeedTasks
    /\ subtasks = SeedSubtasks
    /\ notes = SeedNotes
    /\ nextId = 1
    /\ req = [r \in Reqs |-> IdleReq]

AuthzInputs(ops, token, target) ==
    [ops     |-> ops,
     tokens  |-> {token},
     pids    |-> [op \in AllOps |-> ExistingProjectIds],
     uids    |-> [op \in AllOps |->
                    IF op \in {"updateProjectMemberRole", "removeProjectMember"}
                    THEN {target} ELSE {"none"}],
     dids    |-> [op \in AllOps |-> {0}],
     bodies  |-> [op \in AllOps |->
                    CASE op = "updateProject" -> {[EmptyBody EXCEPT !.name = "n1"]}
                      [] op = "updateProjectMemberRole" ->
                            {[EmptyBody EXCEPT !.role = "member"]}
                      [] OTHER -> {EmptyBody}]]

AdminMutations ==
    {"updateProject", "deleteProject", "updateProjectMemberRole", "removeProjectMember"}

\* u1 demotes or removes u2 while u2 makes one admin-only request.
AuthzNext ==
    \/ Start("r1", AuthzInputs({"updateProjectMemberRole", "removeProjectMember"},
                               "u1", "u2"))
    \/ Start("r2", AuthzInputs(AdminMutations, "u2", "u1"))
    \/ \E r \in Reqs :
        \/ verifyJWT(r)
        \/ verifyProjectMembership(r)
        \/ verifyProjectMembershipFind(r)
        \/ verifyProjectRole(r)
        \/ updateProject(r)
        \/ projectSave(r)
        \/ deleteProject(r)
        \/ txFindTasks(r)
        \/ txDeleteSubtasks(r)
        \/ txDeleteTasks(r)
        \/ txDeleteNotes(r)
        \/ txDeleteMembers(r)
        \/ txDeleteProject(r)
        \/ txCommitDelete(r)
        \/ updateProjectMemberRole(r)
        \/ roleFind(r)
        \/ roleSave(r)
        \/ removeProjectMember(r)
        \/ removeDelete(r)

AuthzSpec == AuthzInit /\ [][AuthzNext]_vars

\* C27: every write committed by updateProject, deleteProject,
\* updateProjectMemberRole or removeProjectMember is made for a principal
\* who, at the moment of the write, holds a membership with role admin in
\* that project.
C27_AdminAtCommit ==
    [][\A r \in Reqs :
          (/\ req[r].op \in AdminMutations
           /\ req'[r] # req[r]
           /\ db' # db) =>
             \E m \in members :
                 /\ m.project = req[r].pid
                 /\ m.user = req[r].user
                 /\ m.role = "admin"
      ]_vars

----------------------------------------------------------------------------
(* Two projects side by side: records addressed through the other's path *)

\* A second project with its own owner, task, subtask and note.
OtherProject == [id |-> SeedId + 10, name |-> "n0", description |-> "",
                 owner |-> "u1", ver |-> 0]
OtherOwner == [id |-> SeedId + 11, project |-> SeedId + 10, user |-> "u1",
               role |-> "admin", joinedAt |-> SeedId, addedBy |-> "u1", ver |-> 0]
OtherTask == [id |-> SeedId + 12, project |-> SeedId + 10, title |-> "t0",
              description |-> "", assignee |-> "u2", status |-> "todo",
              createdBy |-> "u1"]
OtherSubtask == [id |-> SeedId + 13, task |-> SeedId + 12, title |-> "t0",
                 description |-> "", isCompleted |-> "false", createdBy |-> "u1"]
OtherNote == [id |-> SeedId + 14, project |-> SeedId + 10, title |-> "t0",
              content |-> "", createdBy |-> "u1"]

IsolationInit ==
    /\ projects = SeedProjects \cup {OtherProject}
    /\ \E role \in {"member", "project_admin"} :
          members = {SeedOwner, SeedMember(role), OtherOwner}
    /\ tasks = SeedTasks \cup {OtherTask}
    /\ subtasks = SeedSubtasks \cup {OtherSubtask}
    /\ notes = SeedNotes \cup {OtherNote}
    /\ nextId = 1
    /\ req = [r \in Reqs |-> IdleReq]

\* The routes that address one task, subtask or note under /:projectId.
TaskIdOps    == {"getTaskById", "updateTask", "deleteTask", "createSubtask"}
SubtaskIdOps == {"updateSubtask", "deleteSubtask"}
NoteIdOps    == {"getNoteById", "updateNote", "deleteNote"}
RecordOps    == TaskIdOps \cup SubtaskIdOps \cup NoteIdOps

\* Either project in the path, any stored record of the addressed kind (of
\* either project) in the id segment.
IsolationInputs ==
    [ops     |-> RecordOps,
     tokens  |-> {"u1", "u2"},
     pids    |-> [op \in AllOps |-> ExistingProjectIds],
     uids    |-> [op \in AllOps |-> {"none"}],
     dids    |-> [op \in AllOps |->
                    CASE op \in NoteIdOps    -> {n.id : n \in notes}
                      [] op \in TaskIdOps    -> {t.id : t \in tasks}
                      [] op \in SubtaskIdOps -> {x.id : x \in subtasks}
                      [] OTHER -> {0}],
     bodies  |-> [op \in AllOps |->
                    CASE op \in {"updateNote", "updateTask", "createSubtask"} ->
                            {EmptyBody, [EmptyBody EXCEPT !.title = "t1"]}
                      [] op = "updateSubtask" ->
                            {EmptyBody, [EmptyBody EXCEPT !.title = "t1"],
                             [EmptyBody EXCEPT !.isCompleted = "true"]}
                      [] OTHER -> {EmptyBody}]]

IsolationNext ==
    \/ Start("r1", IsolationInputs)
    \/ verifyJWT("r1")
    \/ verifyRoles("r1")
    \/ verifyProjectMembership("r1")
    \/ verifyProjectMembershipFind("r1")
    \/ verifyProjectRole("r1")
    \/ getNoteById("r1")
    \/ updateNote("r1")
    \/ noteSave("r1")
    \/ deleteNote("r1")
    \/ noteDelete("r1")
    \/ getTaskById("r1")
    \/ updateTask("r1")
    \/ taskSave("r1")
    \/ deleteTask("r1")
    \/ taskDeleteSubtasks("r1")
    \/ taskDelete("r1")
    \/ createSubtask("r1")
    \/ subtaskCreate("r1")
    \/ updateSubtask("r1")
    \/ subtaskSave("r1")
    \/ deleteSubtask("r1")
    \/ subtaskDelete("r1")

IsolationSpec == IsolationInit /\ [][IsolationNext]_vars

\* The project a stored record belongs to: Task.project, Note.project, and for
\* a subtask the project of its task; 0 when there is no such record.
ProjectOfTask(id) == IF FindTask(id) = NoDoc THEN 0 ELSE FindTask(id).project
ProjectOfSubtask(id) ==
    IF FindSubtask(id) = NoDoc THEN 0 ELSE ProjectOfTask(FindSubtask(id).task)
ProjectOfNote(id) ==
    IF \E n \in notes : n.id = id THEN (CHOOSE n \in notes : n.id = id).project ELSE 0

ProjectOfAddressed(rq) ==
    IF rq.op \in TaskIdOps THEN ProjectOfTask(rq.did)
    ELSE IF rq.op \in SubtaskIdOps THEN ProjectOfSubtask(rq.did)
    ELSE ProjectOfNote(rq.did)

\* What a step of request r does about the records outside the project of
\* its path; `answer` is the status of the handler for a record of another
\* project.
IsolatedStep(r, answer(_)) ==
    LET rq == req[r]
        foreign == ProjectOfAddressed(rq) # rq.pid IN
    (rq.pc # "idle" /\ rq.op \in RecordOps /\ req'[r] # rq) =>
        \* nothing outside the path's project is modified, deleted or added
        /\ {t \in tasks' : t.project # rq.pid} = {t \in tasks : t.project # rq.pid}
        /\ {n \in notes' : n.project # rq.pid} = {n \in notes : n.project # rq.pid}
        /\ \A x \in subtasks : ProjectOfTask(x.task) # rq.pid => x \in subtasks'
        /\ \A x \in subtasks' \ subtasks : ProjectOfTask(x.task) = rq.pid
        \* the handler rejects a record of another project without a write
        /\ (rq.pc = rq.op /\ foreign) =>
              /\ db' = db
              /\ req'[r].pc = "done"
              /\ req'[r].status = answer(rq)
        \* a record is returned only from the path's project
        /\ req'[r].status \in {200, 201} => ~foreign

\* C28: a request under /:projectId never returns, modifies or deletes a
\* task, subtask or note of another project; the nine record handlers answer
\* a record of another project with 404 without a write, except that
\* createSubtask checks the title first and answers a missing or blank title
\* with 400.
C28_ProjectIsolation ==
    [][\A r \in Reqs :
          LET answer(rq) ==
                IF rq.op = "createSubtask"
                   /\ (rq.body.title = "undefined" \/ Trim(rq.body.title) = "")
                THEN 400 ELSE 404 IN
          IsolatedStep(r, answer)
      ]_vars

\* C28 as stated: every one of the nine handlers answers 404 for a record of
\* another project, whatever the body.
C28_ForeignRecordAlways404 ==
    [][\A r \in Reqs :
          LET answer(rq) == 404 IN
          IsolatedStep(r, answer)
      ]_vars

\* An updateTask under one project's path that named the other project's task
\* passed all three guards and was answered 404, the task untouched.
C28_ForeignTaskRefused ==
    \E r \in Reqs :
        /\ req[r].pc = "done" /\ req[r].op = "updateTask"
        /\ req[r].gi > Len(Chain("updateTask"))
        /\ req[r].status = 404
        /\ req[r].pid = SeedId + 1 /\ req[r].did = OtherTask.id
        /\ req[r].body.title = "t1"
        /\ OtherTask \in tasks

----------------------------------------------------------------------------
(* A role update racing with the removal of the same membership *)

\* u1 owns the project; u2 is the member whose role is updated and who is
\* removed, alone or with the whole project.
RaceInit ==
    /\ projects = SeedProjects
    /\ \E role \in {"member", "project_admin"} :
          members = {SeedOwner, SeedMember(role)}
    /\ tasks = SeedTasks
    /\ subtasks = SeedSubtasks
    /\ notes = SeedNotes
    /\ nextId = 1
    /\ req = [r \in Reqs |-> IdleReq]

RaceInputs(ops) ==
    [ops     |-> ops,
     tokens  |-> {"u1"},
     pids    |-> [op \in AllOps |-> ExistingProjectIds],
     uids    |-> [op \in AllOps |->
                    IF op \in {"updateProjectMemberRole", "removeProjectMember"}
                    THEN {"u2"} ELSE {"none"}],
     dids    |-> [op \in AllOps |-> {0}],
     bodies  |-> [op \in AllOps |->
                    IF op = "updateProjectMemberRole"
                    THEN {[EmptyBody EXCEPT !.role = ro] : ro \in {"admin", "member"}}
                    ELSE {EmptyBody}]]

\* Slot r1 updates u2's role while slot r2 removes u2 or deletes the project.
RaceNext ==
    \/ Start("r1", RaceInputs({"updateProjectMemberRole"}))
    \/ Start("r2", RaceInputs({"removeProjectMember", "deleteProject"}))
    \/ \E r \in Reqs :
        \/ verifyJWT(r)
        \/ verifyProjectMembership(r)
        \/ verifyProjectMembershipFind(r)
        \/ verifyProjectRole(r)
        \/ updateProjectMemberRole(r)
        \/ roleFind(r)
        \/ roleSave(r)
        \/ removeProjectMember(r)
        \/ removeDelete(r)
        \/ deleteProject(r)
        \/ txFindTasks(r)
        \/ txDeleteSubtasks(r)
        \/ txDeleteTasks(r)
        \/ txDeleteNotes(r)
        \/ txDeleteMembers(r)
        \/ txDeleteProject(r)
        \/ txCommitDelete(r)

RaceSpec == RaceInit /\ [][RaceNext]_vars

\* The stored membership of user uid in project pid, as a set.
MembershipIn(ms, pid, uid) == {m \in ms : m.project = pid /\ m.user = uid}
MembershipOf(pid, uid) == MembershipIn(members, pid, uid)

\* What a step of request r may do to the raced membership; Ends(rq, s) says
\* which status s may end the update whose state before the step is rq.
RaceStep(r, Ends(_, _)) ==
    LET rq == req[r]
        target == MembershipOf(rq.pid, rq.uid) IN
    \* no step creates a membership
    /\ {m.id : m \in members'} \subseteq {m.id : m \in members}
    \* a role is written only to the stored membership the attempt fetched
    /\ (rq.pc = "roleSave" /\ req'[r] # rq) =>
          IF target = {} \/ ~VersionMatches(members, rq.doc)
          THEN db' = db /\ req'[r].status # 200
          ELSE /\ req'[r].status = 200
               /\ \A m \in MembershipIn(members', rq.pid, rq.uid) : m.role = rq.body.role
    \* the status the update ends with
    /\ (rq.op = "updateProjectMemberRole" /\ rq.pc # "done" /\ req'[r].pc = "done") =>
          /\ Ends(rq, req'[r].status)
          /\ req'[r].status # 200 => (target = {} /\ db' = db)
    \* after both requests
    /\ (\A q \in Reqs : req'[q].pc = "done") =>
          LET upd == CHOOSE q \in Reqs : req'[q].op = "updateProjectMemberRole"
              rem == CHOOSE q \in Reqs : req'[q].op # "updateProjectMemberRole" IN
          \/ MembershipIn(members', req'[upd].pid, req'[upd].uid) = {}
          \/ /\ \A m \in MembershipIn(members', req'[upd].pid, req'[upd].uid) :
                   m.role = req'[upd].body.role
             /\ req'[upd].status = 200
             /\ req'[rem].status # 200

\* C29: when updateProjectMemberRole races with removeProjectMember or
\* deleteProject on the same membership, no step re-creates a membership that
\* is gone; a role is written only to a membership that is still stored; once
\* both requests have finished the membership is absent, or present with the
\* updated role while the removal did not succeed; the handler ends with 200
\* or, having found the membership gone, with 404; and an update still in
\* its guards when deleteProject commits is refused by verifyProjectMembership
\* with 404 (project gone) or 403 (the requester's own membership gone).
C29_UpdateNeverResurrects ==
    [][\A r \in Reqs :
          LET Ends(rq, s) ==
                IF rq.pc \in {"roleFind", "roleSave"} THEN s \in {200, 404}
                ELSE /\ s \in {403, 404}
                     /\ rq.pc \in {"guard", "membershipFind"}
                     /\ FindProject(rq.pid) = NoDoc IN
          RaceStep(r, Ends)
      ]_vars

\* C29 as stated: every update that lost the race ends with 404.
C29_LostUpdateAlways404 ==
    [][\A r \in Reqs :
          LET Ends(rq, s) == s \in {200, 404} IN
          RaceStep(r, Ends)
      ]_vars

\* The update lost the race against removeProjectMember: the removal answered
\* 200, the update found the membership gone and answered 404, and the
\* membership stays deleted.
C29_LateUpdateAnswered404 ==
    \E upd, rem \in Reqs :
        /\ req[upd].pc = "done" /\ req[upd].op = "updateProjectMemberRole"
        /\ req[upd].status = 404
        /\ req[rem].pc = "done" /\ req[rem].op = "removeProjectMember"
        /\ req[rem].status = 200
        /\ MembershipOf(req[upd].pid, req[upd].uid) = {}

----------------------------------------------------------------------------
(* The admins of a project under role updates and removals *)

\* The owner u1 is the project's only admin; u2 is a member or project admin.
\* Either slot carries a request of u1: a new project, a role update or a
\* removal, aimed at u2 or at u1 themself.
AdminInputs ==
    [ops     |-> {"createProject", "updateProjectMemberRole", "removeProjectMember"},
     tokens  |-> {"u1"},
     pids    |-> [op \in AllOps |->
                    IF HasProjectId(op) THEN {SeedId + 1} ELSE {0}],
     uids    |-> [op \in AllOps |->
                    IF op \in {"updateProjectMemberRole", "removeProjectMember"}
                    THEN {"u1", "u2"} ELSE {"none"}],
     dids    |-> [op \in AllOps |-> {0}],
     bodies  |-> [op \in AllOps |->
                    CASE op = "createProject" -> {[EmptyBody EXCEPT !.name = "n1"]}
                      [] op = "updateProjectMemberRole" ->
                            {[EmptyBody EXCEPT !.role = ro] : ro \in {"admin", "member"}}
                      [] OTHER -> {EmptyBody}]]

AdminNext ==
    \E r \in Reqs :
        \/ Start(r, AdminInputs)
        \/ verifyJWT(r)
        \/ verifyRoles(r)
        \/ verifyProjectMembership(r)
        \/ verifyProjectMembershipFind(r)
        \/ verifyProjectRole(r)
        \/ createProject(r)
        \/ txCreateProject(r)
        \/ txCreateMember(r)
        \/ txCommitCreate(r)
        \/ updateProjectMemberRole(r)
        \/ roleFind(r)
        \/ roleSave(r)
        \/ removeProjectMember(r)
        \/ removeDelete(r)

AdminSpec == GateInit /\ [][AdminNext]_vars

\* The memberships with role admin in project pid.
AdminsOf(pid) == {m \in members : m.project = pid /\ m.role = "admin"}

\* C30: in every reachable state every stored project has at least one
\* membership with role admin.
C30_EveryProjectHasAdmin ==
    \A p \in projects : AdminsOf(p.id) # {}

============================================================================
